---------------------------- MODULE Spec2Model ----------------------------
(***************************************************************************)
(* A model of the RavenDB provisioning engine of terraform-provider-ravendb *)
(* (src/ravendb/rvn_server.go and the resource file src/unnamed/part_001).  *)
(*                                                                          *)
(* SpecRead   : the fleet read readRavenDbInstances, one goroutine per host *)
(*              running ReadServer (ConnectToRemoteWithRetry, then the      *)
(*              read of the host), the WaitGroup, the error channel.        *)
(* SpecModify : one call of modifyDatabase on a database of the cluster.    *)
(* SpecCreate : one call of createDatabases (distributeSecretKey,           *)
(*              createDatabase, modifyDatabase for every declared database).*)
(* SpecDeploy : one call of Deploy: the healthcheck, then deleteDatabases,  *)
(*              createDatabases, deleteIndexes, createIndexes.              *)
(* Every request to the cluster goes through executeWithRetries,            *)
(* executeWithRetriesMaintenanceOperations or a plain Send, and is kept in  *)
(* the history variable log.                                                *)
(***************************************************************************)
EXTENDS Integers, Sequences, FiniteSets, TLC

(***************************************************************************)
(* Program constants.                                                       *)
(***************************************************************************)
NUMBER_OF_RETRIES == 5

\* time.Sleep(time.Second * 2) between two dials
DialBackoffSeconds == 2

(***************************************************************************)
(* Bounds of the model.                                                     *)
(***************************************************************************)
MaxHosts == 3

\* the longest list of replication nodes a modifyDatabase is tried on
MaxDeclaredNodes == 3

\* the most databases createDatabases is tried on
MaxDatabases == 2

\* the most databases the configuration of a whole Deploy declares
MaxDeployDatabases == 1

\* the most entries of DatabasesToDelete and of IndexesToDelete
MaxDeletes == 1

\* the longest command list execute is tried on
MaxCommands == 3

\* the most hosts a fan-out of deployments or removals runs on
MaxFanHosts == 2

\* the most entries of sc.Assets
MaxAssets == 1

MaxResolved == 2

MaxZipFiles == 3

(***************************************************************************)
(* Errors.  An error is modelled by the class of its message; what the code *)
(* asks of an error is whether its message contains a marker                *)
(* (strings.Contains) or whether it is of a type (errors.As).               *)
(***************************************************************************)
NoErr == "nil"
ErrUnreachable == "Unable to SSH to host:port because dial failed"
ErrOther == "other error"
\* *ravendb.NoLeaderError
ErrNoLeader == "no leader"
\* the server's answer to creating a database that exists
ErrAlreadyExists == "Database already exists!"
\* a *ravendb.ConcurrencyError with another message
ErrConcurrency == "concurrency error"
\* *ravendb.DatabaseDoesNotExistError
ErrDatabaseDoesNotExist == "database does not exist"
\* errors.New("Unable to retrieve topology for database: " + name)
ErrNoTopology == "Unable to retrieve topology for database"
\* the getStore failure (bad key pair, store.Initialize)
ErrStore == "store error"

\* strings.Contains(err.Error(), marker), by the message each error class carries
MessageContains(e, marker) ==
    CASE marker = "Unable to SSH to" -> e = ErrUnreachable
      [] marker = "already exists!"  -> e = ErrAlreadyExists
      [] OTHER -> FALSE

VARIABLES
    rdHosts,         \* len(sc.Hosts) of the fleet read
    rdPemOk,         \* whether sc.SSH.Pem parses as a private key
    rdSpawned,       \* number of goroutines the spawn loop has started
    task,            \* task[h]: the goroutine of host h
    wg,              \* the sync.WaitGroup counter
    errorsChanel,    \* the buffered error channel, as the sequence it holds
    nodeStateArray,  \* the result slice, one slot per host
    rdPc,            \* position of readRavenDbInstances and of its caller
    rdRet,           \* what readRavenDbInstances returned
    rdSeen           \* the slice as the caller reads it after the return

rdVars == <<rdHosts, rdPemOk, rdSpawned, task, wg, errorsChanel,
            nodeStateArray, rdPc, rdRet, rdSeen>>

VARIABLES
    sc,     \* the ServerConfig of a Deploy: Hosts, Databases, DatabasesToDelete, ...
    pc,     \* position of the reconciliation (Deploy and the functions it calls)
    loc,    \* local variables of the functions on the call stack
    ex,     \* the running executeWithRetries (or plain Send) call
    log,    \* every operation handed to the RPC client so far, in order
    ret,    \* the error the function that returned last gave back
    cluster \* the node tags of the live cluster

dpVars == <<sc, pc, loc, ex, log, ret, cluster>>

VARIABLES
    hsCfg,     \* the ServerConfig of a host operation and how it is called
    hsFan,     \* the fan-out: loop index, WaitGroup, errorsChannel, result
    hsTask,    \* hsTask[h]: the deployAction / purge task of host h
    hsUrlList  \* sc.Url.List

hsVars == <<hsCfg, hsFan, hsTask, hsUrlList>>

vars == <<rdVars, dpVars, hsVars>>

\* what the actions of one part of the program leave alone
rdOthers == <<dpVars, hsVars>>

dpOthers == <<rdVars, hsVars>>

hsOthers == <<rdVars, dpVars>>

\* the reconciliation variables while only another part of the program runs
DpIdle ==
    /\ sc = <<>>
    /\ pc = "idle"
    /\ loc = <<>>
    /\ ex = <<>>
    /\ log = <<>>
    /\ ret = <<>>
    /\ cluster = {}

\* the host operation variables while only another part of the program runs
HsIdle ==
    /\ hsCfg = <<>>
    /\ hsFan = <<>>
    /\ hsTask = <<>>
    /\ hsUrlList = <<>>

\* the fleet read variables while only another part of the program runs
RdIdle ==
    /\ rdHosts = 0
    /\ rdPemOk = FALSE
    /\ rdSpawned = 0
    /\ task = <<>>
    /\ wg = 0
    /\ errorsChanel = <<>>
    /\ nodeStateArray = <<>>
    /\ rdPc = "idle"
    /\ rdRet = <<>>
    /\ rdSeen = <<>>

(***************************************************************************)
(* NodeState: the zero value and the value ReadServer builds for a host.    *)
(***************************************************************************)
ZeroNodeState == [Host |-> 0, Failed |-> FALSE, Version |-> ""]

ReadNodeState(h) == [Host |-> h, Failed |-> FALSE, Version |-> "build"]

IdleTask == [pc |-> "idle", i |-> 0, dials |-> 0, slept |-> 0, conn |-> FALSE,
             err |-> NoErr, ns |-> ZeroNodeState]

RdHostSet == 1..rdHosts

(***************************************************************************)
(* ConnectToRemoteWithRetry: for i := 0; i <= NUMBER_OF_RETRIES; i++        *)
(***************************************************************************)
\* the loop condition
DialLoopCondExclusive(i) == i < NUMBER_OF_RETRIES

DialLoopCond(i) == i <= NUMBER_OF_RETRIES

\* err != nil && i < NUMBER_OF_RETRIES: sleep and dial again
DialRetries(ok, i) == ~ok /\ i < NUMBER_OF_RETRIES

\* one iteration of the loop: ssh.Dial, then the three-way branch
ConnectStep(t, ok) ==
    IF DialRetries(ok, t.i)
    THEN \* time.Sleep(2s); i++ ; the loop condition is tested again
         IF DialLoopCond(t.i + 1)
         THEN [t EXCEPT !.dials = @ + 1, !.slept = @ + DialBackoffSeconds,
                        !.i = @ + 1]
         ELSE \* loop left by its condition: return conn, nil with conn == nil
              [t EXCEPT !.dials = @ + 1, !.slept = @ + DialBackoffSeconds,
                        !.i = @ + 1, !.pc = "connected", !.conn = FALSE,
                        !.err = NoErr]
    ELSE IF ok
    THEN \* break; return conn, nil
         [t EXCEPT !.dials = @ + 1, !.pc = "connected", !.conn = TRUE,
                   !.err = NoErr]
    ELSE \* return nil, errors.New("Unable to SSH to " + hostAndPort + ...)
         [t EXCEPT !.dials = @ + 1, !.pc = "connectFailed", !.conn = FALSE,
                   !.err = ErrUnreachable]

(***************************************************************************)
(* ReadServer, up to the connection, for the goroutine of host h.           *)
(***************************************************************************)
\* go func(copyOfPublicIp, copyOfIndex) {...}(publicIp, index), in host order
RdSpawn ==
    /\ rdPc = "spawn"
    /\ rdSpawned < rdHosts
    /\ rdSpawned' = rdSpawned + 1
    /\ task' = [task EXCEPT ![rdSpawned + 1].pc = "start"]
    /\ UNCHANGED <<rdHosts, rdPemOk, wg, errorsChanel, nodeStateArray, rdPc,
                   rdRet, rdSeen>>
    /\ UNCHANGED rdOthers

\* ssh.ParsePrivateKey(sc.SSH.Pem): on failure ReadServer returns ns, err
RdParseKey(h) ==
    /\ task[h].pc = "start"
    /\ task' = [task EXCEPT ![h] =
                  IF rdPemOk THEN [@ EXCEPT !.pc = "dial"]
                  ELSE [@ EXCEPT !.pc = "returned", !.err = ErrOther]]
    /\ UNCHANGED <<rdHosts, rdPemOk, rdSpawned, wg, errorsChanel,
                   nodeStateArray, rdPc, rdRet, rdSeen>>
    /\ UNCHANGED rdOthers

\* one iteration of the loop of ConnectToRemoteWithRetry
RdDial(h) ==
    /\ task[h].pc = "dial"
    /\ \E ok \in BOOLEAN : task' = [task EXCEPT ![h] = ConnectStep(@, ok)]
    /\ UNCHANGED <<rdHosts, rdPemOk, rdSpawned, wg, errorsChanel,
                   nodeStateArray, rdPc, rdRet, rdSeen>>
    /\ UNCHANGED rdOthers

\* conn, err = sc.ConnectToRemoteWithRetry(...); if err != nil { return ns, err }
RdConnectFailed(h) ==
    /\ task[h].pc = "connectFailed"
    /\ task' = [task EXCEPT ![h] = [@ EXCEPT !.pc = "returned", !.i = 0,
                                              !.dials = 0, !.slept = 0]]
    /\ UNCHANGED <<rdHosts, rdPemOk, rdSpawned, wg, errorsChanel,
                   nodeStateArray, rdPc, rdRet, rdSeen>>
    /\ UNCHANGED rdOthers

\* the rest of ReadServer on an open connection: the files, the settings, the
\* store and the build number are read; any of these steps may fail, and then
\* ReadServer returns the NodeState built so far (Host is set last) and the error
RdReadHost(h) ==
    /\ task[h].pc = "connected"
    /\ task[h].conn
    /\ \E ok \in BOOLEAN :
         task' = [task EXCEPT ![h] =
                    [@ EXCEPT !.pc = "returned", !.i = 0, !.dials = 0, !.slept = 0,
                              !.err = IF ok THEN NoErr ELSE ErrOther,
                              !.ns = IF ok THEN ReadNodeState(h) ELSE ZeroNodeState]]
    /\ UNCHANGED <<rdHosts, rdPemOk, rdSpawned, wg, errorsChanel,
                   nodeStateArray, rdPc, rdRet, rdSeen>>
    /\ UNCHANGED rdOthers

(***************************************************************************)
(* The goroutine of readRavenDbInstances after ReadServer returned.         *)
(***************************************************************************)
\* strings.Contains(err.Error(), "Unable to SSH to")
IsUnreachableAnyError(e) == e # NoErr

IsUnreachable(e) == MessageContains(e, "Unable to SSH to")

\* if err != nil { if unreachable { nodeState.Failed = true; wg.Done(); return }
\*                 else { errorsChanel <- err } }
RdHandleResult(h) ==
    /\ task[h].pc = "returned"
    /\ IF task[h].err # NoErr /\ IsUnreachable(task[h].err)
       THEN /\ task' = [task EXCEPT ![h] = [@ EXCEPT !.ns.Failed = TRUE,
                                                    !.pc = "finished"]]
            /\ wg' = wg - 1
            /\ UNCHANGED errorsChanel
       ELSE IF task[h].err # NoErr
       THEN \* the channel has room for one error of every host: never blocks
            /\ Len(errorsChanel) < rdHosts
            /\ errorsChanel' = Append(errorsChanel, [host |-> h, err |-> task[h].err])
            /\ task' = [task EXCEPT ![h].pc = "done"]
            /\ UNCHANGED wg
       ELSE /\ task' = [task EXCEPT ![h].pc = "done"]
            /\ UNCHANGED <<wg, errorsChanel>>
    /\ UNCHANGED <<rdHosts, rdPemOk, rdSpawned, nodeStateArray, rdPc, rdRet, rdSeen>>
    /\ UNCHANGED rdOthers

\* wg.Done()
RdDone(h) ==
    /\ task[h].pc = "done"
    /\ wg' = wg - 1
    /\ task' = [task EXCEPT ![h].pc = "store"]
    /\ UNCHANGED <<rdHosts, rdPemOk, rdSpawned, errorsChanel, nodeStateArray,
                   rdPc, rdRet, rdSeen>>
    /\ UNCHANGED rdOthers

\* nodeStateArray[copyOfIndex] = nodeState
RdStore(h) ==
    /\ task[h].pc = "store"
    /\ nodeStateArray' = [nodeStateArray EXCEPT ![h] = task[h].ns]
    /\ task' = [task EXCEPT ![h].pc = "finished"]
    /\ UNCHANGED <<rdHosts, rdPemOk, rdSpawned, wg, errorsChanel, rdPc, rdRet,
                   rdSeen>>
    /\ UNCHANGED rdOthers

(***************************************************************************)
(* readRavenDbInstances itself, and its caller resourceServerRead.          *)
(***************************************************************************)
\* the spawn loop is over: wg.Wait()
RdWaitBegin ==
    /\ rdPc = "spawn"
    /\ rdSpawned = rdHosts
    /\ rdPc' = "wait"
    /\ UNCHANGED <<rdHosts, rdPemOk, rdSpawned, task, wg, errorsChanel,
                   nodeStateArray, rdRet, rdSeen>>
    /\ UNCHANGED rdOthers

\* wg.Wait() returns; close(errorsChanel); the channel is drained into one
\* multierror, or the slice is returned
RdReturn ==
    /\ rdPc = "wait"
    /\ wg = 0
    /\ rdPc' = "returned"
    /\ IF Len(errorsChanel) > 0
       THEN /\ rdRet' = [nodes |-> FALSE,
                         errs |-> {errorsChanel[k] : k \in 1..Len(errorsChanel)}]
            /\ errorsChanel' = <<>>
       ELSE /\ rdRet' = [nodes |-> TRUE, errs |-> {}]
            /\ UNCHANGED errorsChanel
    /\ UNCHANGED <<rdHosts, rdPemOk, rdSpawned, task, wg, nodeStateArray, rdSeen>>
    /\ UNCHANGED rdOthers

\* resourceServerRead ranges over the returned slice, which is nodeStateArray
\* itself: it sees what the goroutines have stored by then
RdCallerReads ==
    /\ rdPc = "returned"
    /\ rdRet.nodes
    /\ rdSeen' = nodeStateArray
    /\ rdPc' = "read"
    /\ UNCHANGED <<rdHosts, rdPemOk, rdSpawned, task, wg, errorsChanel,
                   nodeStateArray, rdRet>>
    /\ UNCHANGED rdOthers

RdInit ==
    /\ rdHosts \in 1..MaxHosts
    /\ rdPemOk \in BOOLEAN
    /\ rdSpawned = 0
    /\ task = [h \in 1..rdHosts |-> IdleTask]
    /\ wg = rdHosts
    /\ errorsChanel = <<>>
    /\ nodeStateArray = [h \in 1..rdHosts |-> ZeroNodeState]
    /\ rdPc = "spawn"
    /\ rdRet = [nodes |-> FALSE, errs |-> {}]
    /\ rdSeen = <<>>
    /\ DpIdle
    /\ HsIdle

RdNext ==
    \/ RdSpawn
    \/ RdWaitBegin
    \/ RdReturn
    \/ RdCallerReads
    \/ \E h \in RdHostSet : RdParseKey(h)
    \/ \E h \in RdHostSet : RdDial(h)
    \/ \E h \in RdHostSet : RdConnectFailed(h)
    \/ \E h \in RdHostSet : RdReadHost(h)
    \/ \E h \in RdHostSet : RdHandleResult(h)
    \/ \E h \in RdHostSet : RdDone(h)
    \/ \E h \in RdHostSet : RdStore(h)

SpecRead == RdInit /\ [][RdNext]_vars

(***************************************************************************)
(* Claims on the fleet read (SpecRead).                                     *)
(***************************************************************************)
\* the hosts whose ReadServer ended with the unreachable error, and with none
RdUnreachableHosts == {h \in RdHostSet : IsUnreachable(task[h].err)}

RdHealthyHosts == {h \in RdHostSet : task[h].err = NoErr}

\* C1 as stated: when some hosts fail only with the unreachable error and
\* every other host is read, the call returns no error and the slice the caller
\* gets holds Failed = true at each unreachable host's index and the host's own
\* NodeState at each healthy host's index.
C1_UnreachableMarkedFailed ==
    (/\ rdPc = "read"
     /\ RdUnreachableHosts # {}
     /\ RdUnreachableHosts \cup RdHealthyHosts = RdHostSet)
    => /\ rdRet.nodes /\ rdRet.errs = {}
       /\ \A h \in RdUnreachableHosts : rdSeen[h].Failed
       /\ \A h \in RdHealthyHosts : rdSeen[h] = ReadNodeState(h)

\* C10 as stated: at most NUMBER_OF_RETRIES = 5 dials of a host, 2 seconds
\* slept between consecutive failed attempts, the marked error when every
\* attempt failed, the connection and no error when one succeeded.
C10_AtMostFiveDials ==
    \A h \in RdHostSet :
       /\ task[h].dials <= NUMBER_OF_RETRIES
       /\ task[h].pc = "connectFailed" => IsUnreachable(task[h].err)
       /\ task[h].pc = "connected" => task[h].conn /\ task[h].err = NoErr

\* C10, the loop of the code: at most NUMBER_OF_RETRIES + 1 = 6 dials of a host (the first
\* attempt and five retries); 2 seconds are slept after each failed attempt but
\* the sixth; when all six fail the error carries the marker "Unable to SSH to"
\* and no connection is returned; when an attempt succeeds the connection is
\* returned with no error and no further dial is made.
C10_AtMostSixDials ==
    \A h \in RdHostSet :
       /\ task[h].dials <= NUMBER_OF_RETRIES + 1
       /\ task[h].pc = "dial" =>
             /\ task[h].dials = task[h].i
             /\ task[h].slept = DialBackoffSeconds * task[h].dials
       /\ task[h].pc = "connectFailed" =>
             /\ task[h].dials = NUMBER_OF_RETRIES + 1
             /\ task[h].slept = DialBackoffSeconds * NUMBER_OF_RETRIES
             /\ IsUnreachable(task[h].err)
             /\ ~task[h].conn
       /\ task[h].pc = "connected" =>
             /\ task[h].conn
             /\ task[h].err = NoErr
             /\ task[h].slept = DialBackoffSeconds * (task[h].dials - 1)
             /\ ~ENABLED RdDial(h)

\* one host has used up all its attempts while another connected on a retry
C10_Witness ==
    \E h1, h2 \in RdHostSet :
       /\ task[h1].pc = "connectFailed"
       /\ task[h1].dials = NUMBER_OF_RETRIES + 1
       /\ task[h2].pc = "connected"
       /\ task[h2].dials > 1

(***************************************************************************)
(* Strings.  Node tags as the configuration and the cluster spell them.     *)
(***************************************************************************)
\* strings.ToUpper on the tags of the model
ToUpper(str) ==
    CASE str = "a" -> "A"
      [] str = "b" -> "B"
      [] str = "b1" -> "B1"
      [] str = "ababa" -> "ABABA"
      [] str \in {"https://a.dev.io", "https://A.dev.io"} -> "HTTPS://A.DEV.IO"
      [] str = "https://b.dev.io" -> "HTTPS://B.DEV.IO"
      [] str = "https://b1.dev.io" -> "HTTPS://B1.DEV.IO"
      [] str = "https://ababa.dev.io" -> "HTTPS://ABABA.DEV.IO"
      [] OTHER -> str

\* strings.TrimSpace on the encryption keys of the model
TrimSpace(str) == IF str = " " THEN "" ELSE str

\* len(strings.TrimSpace(database.Key)) > 0
HasKey(key) == TrimSpace(key) # ""

\* contains(s, str): the first position whose upper-cased element equals the
\* upper-cased str (positions from 1; the code returns position - 1), or 0
containsCaseSensitive(s, str) ==
    LET hits == {k \in 1..Len(s) : s[k] = str}
    IN  IF hits = {} THEN [found |-> FALSE, index |-> 0]
        ELSE [found |-> TRUE, index |-> CHOOSE k \in hits : \A m \in hits : k <= m]

contains(s, str) ==
    LET hits == {k \in 1..Len(s) : ToUpper(s[k]) = ToUpper(str)}
    IN  IF hits = {} THEN [found |-> FALSE, index |-> 0]
        ELSE [found |-> TRUE, index |-> CHOOSE k \in hits : \A m \in hits : k <= m]

\* append(members[:index], members[index+1:]...)
RemoveAt(s, k) == SubSeq(s, 1, k - 1) \o SubSeq(s, k + 1, Len(s))

\* the same append seen from the backing array, which the slice shares with
\* dbRecord.DatabaseTopology.Members and Database.ReplicationNodes: the
\* elements after k move one place down, the last place keeps its value
ShiftBacking(backing, n, k) ==
    [j \in 1..Len(backing) |->
        IF j >= k /\ j < n THEN backing[j + 1] ELSE backing[j]]

(***************************************************************************)
(* modifyDatabase, the member delta: the loop over result.Nodes.            *)
(* d = [members, backing, rm]: the slice members (a prefix of the backing   *)
(* array), the backing array, and rmDbInTags.                               *)
(***************************************************************************)
DeltaStepNoRemove(d, tag) ==
    LET c == contains(d.members, tag)
    IN  IF ~c.found
        THEN [d EXCEPT !.rm = Append(@, tag)]
        ELSE d

DeltaStep(d, tag) ==
    LET c == contains(d.members, tag)
    IN  IF ~c.found
        THEN [d EXCEPT !.rm = Append(@, tag)]
        ELSE [d EXCEPT !.members = RemoveAt(@, c.index),
                       !.backing = ShiftBacking(@, Len(d.members), c.index)]

RECURSIVE MemberDelta(_, _)
MemberDelta(d, nodes) ==
    IF nodes = <<>> THEN d
    ELSE MemberDelta(DeltaStep(d, Head(nodes)), Tail(nodes))

(***************************************************************************)
(* The RPC client.  Every operation handed to it is appended to log as      *)
(* [op, db, name, nodes, flag, n, err]; err is "pending" until the call      *)
(* that sends it returns.  Reads of the topology are not logged.            *)
(***************************************************************************)
Pending == "pending"

Request(op, db, name, nodes, flag, n) ==
    [op |-> op, db |-> db, name |-> name, nodes |-> nodes, flag |-> flag,
     n |-> n, err |-> Pending]

IsLogged(op) == op \notin {"GetClusterTopology"}

\* what the cluster may answer to one send of an operation
Responses(op) ==
    CASE op = "CreateDatabase" ->
            {NoErr, ErrNoLeader, ErrAlreadyExists, ErrConcurrency, ErrOther}
      [] op = "HealthCheck" ->
            {NoErr, ErrNoLeader, ErrDatabaseDoesNotExist, ErrOther}
      [] OTHER -> {NoErr, ErrNoLeader, ErrOther}

\* errors.As(err, &errNoLeader)
IsNoLeaderError(e) == e = ErrNoLeader

\* errors.As(err, &databaseDoesNotExistError)
IsDatabaseDoesNotExistError(e) == e = ErrDatabaseDoesNotExist

\* reflect.TypeOf(err) == reflect.TypeOf(&ravendb.ConcurrencyError{})
IsConcurrencyError(e) == e \in {ErrConcurrency, ErrAlreadyExists}

\* time.Sleep(time.Second * 5) of the retry loops
RetryDelaySeconds == 5

NoCall == [kind |-> "none", op |-> "", i |-> 0, sends |-> 0, sleeps |-> 0,
           slept |-> 0, noLeader |-> 0, err |-> NoErr, match |-> FALSE,
           done |-> TRUE]

\* a call of executeWithRetries ("server"), of
\* executeWithRetriesMaintenanceOperations ("maintenance") or of Send ("plain")
StartCall(kind, op) == [NoCall EXCEPT !.kind = kind, !.op = op, !.done = FALSE]

\* for i := 0; i < NUMBER_OF_RETRIES; i++
RetryLoopCondOneMore(i) == i <= NUMBER_OF_RETRIES

RetryLoopCond(i) == i < NUMBER_OF_RETRIES

\* whether a failed send is followed by the sleep and the next iteration:
\* executeWithRetries returns unless the error is a no-leader error,
\* executeWithRetriesMaintenanceOperations sleeps after every error,
\* a plain Send is a single send
RetriesOnAnyError(kind, e) == kind \in {"server", "maintenance"}

RetriesOn(kind, e) ==
    \/ kind = "server" /\ (~(~IsNoLeaderError(e) /\ ~IsNoLeaderError(e)))
    \/ kind = "maintenance"

\* one iteration: Send, then return or sleep
CallStep(c, r, m) ==
    LET sent == [c EXCEPT !.sends = @ + 1, !.err = r, !.match = m,
                          !.noLeader = @ + (IF IsNoLeaderError(r) THEN 1 ELSE 0)]
    IN  IF r = NoErr \/ ~RetriesOn(c.kind, r)
        THEN [sent EXCEPT !.done = TRUE]
        ELSE [sent EXCEPT !.sleeps = @ + 1, !.slept = @ + RetryDelaySeconds,
                          !.i = @ + 1, !.done = ~RetryLoopCond(c.i + 1)]

\* the last request of the log with its result filled in
Answered(l, e) == [l EXCEPT ![Len(l)].err = e]

ExSend ==
    /\ ~ex.done
    /\ \E r \in Responses(ex.op) :
       \E m \in (IF ex.op = "GetClusterTopology" /\ r = NoErr THEN BOOLEAN ELSE {FALSE}) :
          /\ ex' = CallStep(ex, r, m)
          /\ log' = IF ex'.done /\ IsLogged(ex.op) THEN Answered(log, ex'.err) ELSE log
    /\ UNCHANGED <<sc, pc, loc, ret, cluster>>
    /\ UNCHANGED dpOthers

(***************************************************************************)
(* Local variables of the reconciliation functions.                         *)
(*   idx      the loop index of deleteDatabases / createDatabases           *)
(*   sub      the inner loop index of deleteIndexes / createIndexes         *)
(*   maps     indexDefinition.Maps of createIndexes                          *)
(*   pollI    the loop index of createDatabase                              *)
(*   cdRec    the DatabaseRecord and repFactor createDatabase was given     *)
(*   cdRet    where createDatabase returns to                               *)
(*   mdDb     the database modifyDatabase works on; mdRet where it returns  *)
(*   members, rm, addIdx   members, rmDbInTags and the loop index of        *)
(*            addDatabaseNode                                               *)
(*   hist     per database: the replication nodes as declared, what         *)
(*            createDatabase returned and the live members modifyDatabase   *)
(*            was given (history)                                           *)
(***************************************************************************)
NoRecord == [name |-> "", encrypted |-> FALSE, members |-> <<>>, repFactor |-> 0]

NoHistory(db) ==
    [declared |-> db.ReplicationNodes, created |-> "", fetched |-> FALSE,
     live |-> <<>>]

InitLoc(dbs) ==
    [idx |-> 1, sub |-> 1, maps |-> <<>>, pollI |-> 0, cdRec |-> NoRecord,
     cdRet |-> "", mdDb |-> 0, mdRet |-> "", members |-> <<>>, rm |-> <<>>,
     addIdx |-> 1, hist |-> [k \in 1..Len(dbs) |-> NoHistory(dbs[k])]]

\* the live member lists the cluster may report for a database: every subset
\* of its nodes, in tag order
TagOrder == <<"A", "B", "C", "D">>

Rank(tag) == CHOOSE k \in 1..Len(TagOrder) : TagOrder[k] = tag

RECURSIVE SortedSeq(_)
SortedSeq(S) ==
    IF S = {} THEN <<>>
    ELSE LET least == CHOOSE x \in S : \A y \in S : Rank(x) <= Rank(y)
         IN  <<least>> \o SortedSeq(S \ {least})

LiveLists == {SortedSeq(S) : S \in SUBSET cluster}

(***************************************************************************)
(* modifyDatabase                                                           *)
(***************************************************************************)
\* command.Result of GetDatabaseTopologyCommand: nil, or the live nodes.
\* With a result, the delta loop runs and the delete is issued when
\* rmDbInTags != nil.
MdFetch ==
    /\ pc = "md.fetch"
    /\ \/ \* result == nil
          /\ ret' = ErrNoTopology
          /\ pc' = loc.mdRet
          /\ UNCHANGED <<sc, loc, ex, log>>
       \/ \E nodes \in LiveLists :
            LET db == sc.Databases[loc.mdDb]
                d  == MemberDelta([members |-> db.ReplicationNodes,
                                   backing |-> db.ReplicationNodes,
                                   rm |-> <<>>], nodes)
            IN  /\ sc' = [sc EXCEPT !.Databases[loc.mdDb].ReplicationNodes = d.backing]
                /\ loc' = [loc EXCEPT !.members = d.members, !.rm = d.rm,
                                      !.addIdx = 1,
                                      !.hist[loc.mdDb].fetched = TRUE,
                                      !.hist[loc.mdDb].live = nodes]
                /\ IF d.rm # <<>>
                   THEN /\ log' = Append(log, Request("DeleteDatabases", db.Name, "",
                                                       d.rm, TRUE, 0))
                        /\ ex' = StartCall("server", "DeleteDatabases")
                        /\ pc' = "md.deleteRet"
                   ELSE /\ pc' = "md.add"
                        /\ UNCHANGED <<log, ex>>
                /\ UNCHANGED ret
    /\ UNCHANGED cluster
    /\ UNCHANGED dpOthers

\* err = executeWithRetries(store, operation); if err != nil { return err }
MdDeleteRet ==
    /\ pc = "md.deleteRet"
    /\ ex.done
    /\ IF ex.err # NoErr
       THEN /\ ret' = ex.err
            /\ pc' = loc.mdRet
       ELSE /\ pc' = "md.add"
            /\ UNCHANGED ret
    /\ ex' = NoCall
    /\ UNCHANGED <<sc, loc, log, cluster>>
    /\ UNCHANGED dpOthers

\* addDatabaseNode: for _, node := range nodes { executeWithRetries(add node) }
MdAdd ==
    /\ pc = "md.add"
    /\ IF loc.addIdx <= Len(loc.members)
       THEN /\ log' = Append(log, Request("AddDatabaseNode",
                                          sc.Databases[loc.mdDb].Name, "",
                                          <<loc.members[loc.addIdx]>>, FALSE, 0))
            /\ ex' = StartCall("server", "AddDatabaseNode")
            /\ pc' = "md.addRet"
            /\ UNCHANGED ret
       ELSE /\ ret' = NoErr
            /\ pc' = loc.mdRet
            /\ UNCHANGED <<log, ex>>
    /\ UNCHANGED <<sc, loc, cluster>>
    /\ UNCHANGED dpOthers

MdAddRet ==
    /\ pc = "md.addRet"
    /\ ex.done
    /\ IF ex.err # NoErr
       THEN /\ ret' = ex.err
            /\ pc' = loc.mdRet
            /\ UNCHANGED loc
       ELSE /\ pc' = "md.add"
            /\ loc' = [loc EXCEPT !.addIdx = @ + 1]
            /\ UNCHANGED ret
    /\ ex' = NoCall
    /\ UNCHANGED <<sc, log, cluster>>
    /\ UNCHANGED dpOthers

(***************************************************************************)
(* SpecModify: modifyDatabase on one database record, for every declared    *)
(* list of replication nodes (no node named twice) and every live member    *)
(* list of a cluster of the nodes A, B, C.                                  *)
(***************************************************************************)
\* the lists of at most n tags that name no node twice
NodeLists(tags, n) ==
    {l \in UNION {[1..k -> tags] : k \in 1..n} :
        \A i, j \in 1..Len(l) : i # j => ToUpper(l[i]) # ToUpper(l[j])}

Database(name, nodes, key, indexes) ==
    [Name |-> name, ReplicationNodes |-> nodes, Key |-> key, Indexes |-> indexes]

Config(hosts, hasStore, dbs, dbsToDelete, ixToDelete) ==
    [Hosts |-> hosts, HasStore |-> hasStore, HealthcheckDatabase |-> "hc",
     Databases |-> dbs, DatabasesToDelete |-> dbsToDelete,
     IndexesToDelete |-> ixToDelete]

MdInit ==
    /\ \E nodes \in NodeLists({"A", "B", "C", "D", "a"}, MaxDeclaredNodes) :
          sc = Config(1, TRUE, <<Database("db1", nodes, "", <<>>)>>, <<>>, <<>>)
    /\ cluster = {"A", "B", "C"}
    /\ pc = "md.fetch"
    /\ loc = [InitLoc(sc.Databases) EXCEPT !.mdDb = 1, !.mdRet = "returned"]
    /\ ex = NoCall
    /\ log = <<>>
    /\ ret = NoErr
    /\ RdIdle
    /\ HsIdle

MdNext ==
    \/ MdFetch
    \/ MdDeleteRet
    \/ MdAdd
    \/ MdAddRet
    \/ ExSend

SpecModify == MdInit /\ [][MdNext]_vars

(***************************************************************************)
(* Claims on modifyDatabase.                                                *)
(***************************************************************************)
Elems(l) == {l[k] : k \in 1..Len(l)}

\* the positions of the log that hold a request of the given operation for a database
RequestsOf(op, db) == {k \in 1..Len(log) : log[k].op = op /\ log[k].db = db}

\* L \ D and D \ L for the live list L and the declared list D of a database,
\* a tag being the same node whatever its letter case
Excess(h) == {t \in Elems(h.live) : \A d \in Elems(h.declared) : ToUpper(d) # ToUpper(t)}

Missing(h) == {d \in Elems(h.declared) : \A t \in Elems(h.live) : ToUpper(d) # ToUpper(t)}

\* the member delta of database k as the log shows it
DeltaIssued(k) ==
    LET h    == loc.hist[k]
        name == sc.Databases[k].Name
        dels == RequestsOf("DeleteDatabases", name)
        adds == RequestsOf("AddDatabaseNode", name)
    IN  h.fetched =>
          \* one hard delete from exactly L \ D, none when L \ D is empty
          /\ Cardinality({d \in dels : log[d].nodes # <<>>}) =
                (IF Excess(h) = {} THEN 0 ELSE 1)
          /\ \A d \in dels : log[d].nodes # <<>> =>
                /\ log[d].flag
                /\ Elems(log[d].nodes) = Excess(h)
                /\ Len(log[d].nodes) = Cardinality(Excess(h))
          \* adds only for D \ L, none twice, all after the delete
          /\ \A a \in adds : log[a].nodes[1] \in Missing(h)
          /\ \A a, b \in adds : a # b => log[a].nodes # log[b].nodes
          /\ \A d \in dels, a \in adds : log[d].nodes # <<>> => d < a

\* C4: for a live member set L and a declared node set D, modifyDatabase issues
\* one hard delete with from-nodes exactly L \ D (none when L \ D is empty) and
\* adds only tags of D \ L, each once, after the delete; when it returns without
\* error it has issued the add of every tag of D \ L.
C4_MemberDelta ==
    /\ \A k \in 1..Len(sc.Databases) : DeltaIssued(k)
    /\ (pc = "returned" /\ ret = NoErr) =>
          {log[a].nodes[1] : a \in RequestsOf("AddDatabaseNode", "db1")}
             = Missing(loc.hist[1])

\* live {A, B, C}, declared <<B, C, D>>: the delete from A, then the add of D
C4_Witness ==
    /\ pc = "returned"
    /\ ret = NoErr
    /\ loc.hist[1].live = <<"A", "B", "C">>
    /\ loc.hist[1].declared = <<"B", "C", "D">>
    /\ Len(log) = 2
    /\ log[1].op = "DeleteDatabases" /\ log[1].nodes = <<"A">>
    /\ log[2].op = "AddDatabaseNode" /\ log[2].nodes = <<"D">>

(***************************************************************************)
(* createDatabase                                                           *)
(***************************************************************************)
\* the loop condition with one more iteration
PollLoopCondOneMore(i) == i <= NUMBER_OF_RETRIES

\* for i := 0; i < NUMBER_OF_RETRIES; i++ { topology, err := getClusterTopology }
PollLoopCond(i) == i < NUMBER_OF_RETRIES

CdPoll ==
    /\ pc = "cd.poll"
    /\ IF PollLoopCond(loc.pollI)
       THEN /\ ex' = StartCall("server", "GetClusterTopology")
            /\ pc' = "cd.pollRet"
       ELSE /\ pc' = "cd.create"
            /\ UNCHANGED ex
    /\ UNCHANGED <<sc, loc, log, ret, cluster>>
    /\ UNCHANGED dpOthers

\* if err != nil { return err }
\* if len(topology.Topology.Members) != len(sc.Url.List) { sleep } else { break }
CdPollRet ==
    /\ pc = "cd.pollRet"
    /\ ex.done
    /\ IF ex.err # NoErr
       THEN /\ ret' = ex.err
            /\ pc' = loc.cdRet
            /\ loc' = [loc EXCEPT !.pollI = 0]
       ELSE IF ~ex.match
       THEN /\ loc' = [loc EXCEPT !.pollI = @ + 1]
            /\ pc' = "cd.poll"
            /\ UNCHANGED ret
       ELSE /\ pc' = "cd.create"
            /\ UNCHANGED <<loc, ret>>
    /\ ex' = NoCall
    /\ UNCHANGED <<sc, log, cluster>>
    /\ UNCHANGED dpOthers

\* operation := ravendb.NewCreateDatabaseOperation(dbRecord, repFactor)
\* err := executeWithRetries(store, operation)
CdCreate ==
    /\ pc = "cd.create"
    /\ log' = Append(log, Request("CreateDatabase", loc.cdRec.name, "",
                                  loc.cdRec.members, loc.cdRec.encrypted,
                                  loc.cdRec.repFactor))
    /\ ex' = StartCall("server", "CreateDatabase")
    /\ loc' = [loc EXCEPT !.pollI = 0]
    /\ pc' = "cd.createRet"
    /\ UNCHANGED <<sc, ret, cluster>>
    /\ UNCHANGED dpOthers

\* what createDatabase returns for the error of the create operation: the
\* error when it says "already exists!" or is no ConcurrencyError, else nil
CreateResult(e) ==
    IF e # NoErr /\ MessageContains(e, "already exists!") THEN e
    ELSE IF e # NoErr /\ ~IsConcurrencyError(e) THEN e
    ELSE NoErr

CdCreateRet ==
    /\ pc = "cd.createRet"
    /\ ex.done
    /\ ret' = CreateResult(ex.err)
    /\ pc' = loc.cdRet
    /\ ex' = NoCall
    /\ UNCHANGED <<sc, loc, log, cluster>>
    /\ UNCHANGED dpOthers

(***************************************************************************)
(* The phases of Deploy after the healthcheck, in the order of its calls:   *)
(* deleteDatabases, createDatabases, deleteIndexes, createIndexes, return.  *)
(* A phase that returns an error makes Deploy return it.                    *)
(***************************************************************************)
NextPhaseDeletesFirst(phase) ==
    CASE phase = "deleteDbs" -> "deleteIxs"
      [] phase = "deleteIxs" -> "cdbs.distribute"
      [] phase = "createDbs" -> "createIxs"
      [] phase = "createIxs" -> "returned"

NextPhase(phase) ==
    CASE phase = "deleteDbs" -> "cdbs.distribute"
      [] phase = "createDbs" -> "deleteIxs"
      [] phase = "deleteIxs" -> "createIxs"
      [] phase = "createIxs" -> "returned"

\* the loop variables of a phase that starts
EnterPhase(l) == [l EXCEPT !.idx = 1, !.sub = 1, !.maps = <<>>]

(***************************************************************************)
(* createDatabases                                                          *)
(***************************************************************************)
\* err = sc.distributeSecretKey(store, database); if err != nil { return err }
DistributeFailedNever(e) == FALSE

DistributeFailed(e) == e # NoErr

\* the second loop: distributeSecretKey for every database with a key
CdbsDistribute ==
    /\ pc = "cdbs.distribute"
    /\ IF loc.idx <= Len(sc.Databases)
       THEN LET db == sc.Databases[loc.idx]
            IN  IF HasKey(db.Key)
                THEN /\ log' = Append(log, Request("DistributeSecretKey", db.Name, "",
                                                    db.ReplicationNodes, FALSE, 0))
                     /\ ex' = StartCall("server", "DistributeSecretKey")
                     /\ pc' = "cdbs.distributeRet"
                     /\ UNCHANGED loc
                ELSE /\ loc' = [loc EXCEPT !.idx = @ + 1]
                     /\ UNCHANGED <<log, ex, pc>>
       ELSE /\ loc' = [loc EXCEPT !.idx = 1]
            /\ pc' = "cdbs.create"
            /\ UNCHANGED <<log, ex>>
    /\ UNCHANGED <<sc, ret, cluster>>
    /\ UNCHANGED dpOthers

\* if err != nil { return err }: Deploy returns the error of createDatabases
CdbsDistributeRet ==
    /\ pc = "cdbs.distributeRet"
    /\ ex.done
    /\ IF DistributeFailed(ex.err)
       THEN /\ ret' = ex.err
            /\ pc' = "returned"
            /\ UNCHANGED loc
       ELSE /\ loc' = [loc EXCEPT !.idx = @ + 1]
            /\ pc' = "cdbs.distribute"
            /\ UNCHANGED ret
    /\ ex' = NoCall
    /\ UNCHANGED <<sc, log, cluster>>
    /\ UNCHANGED dpOthers

\* the third loop: createDatabase(store, databaseRecord, 0); Encrypted is true
\* for a database with a key and set to false for one without.  After the
\* loop createDatabases returns nil and Deploy goes on to its next phase.
CdbsCreate ==
    /\ pc = "cdbs.create"
    /\ IF loc.idx <= Len(sc.Databases)
       THEN LET db == sc.Databases[loc.idx]
            IN  /\ loc' = [loc EXCEPT !.cdRec = [name |-> db.Name,
                                                 encrypted |-> HasKey(db.Key),
                                                 members |-> db.ReplicationNodes,
                                                 repFactor |-> 0],
                                      !.cdRet = "cdbs.createRet",
                                      !.pollI = 0]
                /\ pc' = "cd.poll"
       ELSE /\ loc' = EnterPhase(loc)
            /\ pc' = NextPhase("createDbs")
    /\ UNCHANGED <<sc, ex, log, ret, cluster>>
    /\ UNCHANGED dpOthers

\* what follows the createDatabase of a database:
\*   if err != nil && strings.Contains(err.Error(), "already exists!") { modify }
\*   else { [log.Println(... + err.Error()) for a database with a key]; return err }
\* err.Error() on a nil error is a nil dereference: the program panics
AfterCreate(hasKey, e) ==
    IF e # NoErr /\ MessageContains(e, "already exists!") THEN "modify"
    ELSE IF hasKey /\ e = NoErr THEN "panic"
    ELSE "return"

CdbsCreateRet ==
    /\ pc = "cdbs.createRet"
    /\ LET what == AfterCreate(HasKey(sc.Databases[loc.idx].Key), ret)
           seen == [loc EXCEPT !.hist[loc.idx].created =
                                   IF ret = NoErr THEN "ok" ELSE ret]
       IN  CASE what = "modify" ->
                  /\ loc' = [seen EXCEPT !.mdDb = loc.idx, !.mdRet = "cdbs.modifyRet"]
                  /\ pc' = "md.fetch"
             [] what = "panic" ->
                  /\ loc' = seen
                  /\ pc' = "panic"
             [] what = "return" ->
                  \* createDatabases returns ret; Deploy returns it unless it is nil
                  /\ loc' = EnterPhase(seen)
                  /\ pc' = IF ret # NoErr THEN "returned" ELSE NextPhase("createDbs")
    /\ UNCHANGED <<sc, ex, log, ret, cluster>>
    /\ UNCHANGED dpOthers

\* err = sc.modifyDatabase(store, databaseRecord); if err != nil { return err }
ModifyFailedNever(e) == FALSE

ModifyFailed(e) == e # NoErr

CdbsModifyRet ==
    /\ pc = "cdbs.modifyRet"
    /\ IF ModifyFailed(ret)
       THEN /\ pc' = "returned"
            /\ UNCHANGED loc
       ELSE /\ loc' = [loc EXCEPT !.idx = @ + 1]
            /\ pc' = "cdbs.create"
    /\ UNCHANGED <<sc, ex, log, ret, cluster>>
    /\ UNCHANGED dpOthers

(***************************************************************************)
(* Deploy                                                                   *)
(***************************************************************************)
\* store, err := getStore(sc, *sc.ClusterSetupZip["store"]): the dereference
\* of a missing entry is a nil dereference; then getClusterTopology
DeployGetStore ==
    /\ pc = "deploy.getStore"
    /\ IF ~sc.HasStore
       THEN /\ pc' = "panic"
            /\ UNCHANGED <<ex, ret>>
       ELSE \E ok \in BOOLEAN :
              IF ok
              THEN /\ ex' = StartCall("server", "GetClusterTopology")
                   /\ pc' = "deploy.topologyRet"
                   /\ UNCHANGED ret
              ELSE /\ ret' = ErrStore
                   /\ pc' = "returned"
                   /\ UNCHANGED ex
    /\ UNCHANGED <<sc, loc, log, cluster>>
    /\ UNCHANGED dpOthers

\* clusterTopology, err := sc.getClusterTopology(store); then
\* getDatabaseHealthCheck: executeWithRetriesMaintenanceOperations(probe)
DeployTopologyRet ==
    /\ pc = "deploy.topologyRet"
    /\ ex.done
    /\ IF ex.err # NoErr
       THEN /\ ret' = ex.err
            /\ pc' = "returned"
            /\ UNCHANGED <<ex, log>>
       ELSE /\ log' = Append(log, Request("HealthCheck", sc.HealthcheckDatabase, "",
                                          <<>>, FALSE, 0))
            /\ ex' = StartCall("maintenance", "HealthCheck")
            /\ pc' = "deploy.healthRet"
            /\ UNCHANGED ret
    /\ UNCHANGED <<sc, loc, cluster>>
    /\ UNCHANGED dpOthers

\* &ravendb.DatabaseRecord{DatabaseName: sc.HealthcheckDatabase,
\*                         Encrypted: false}, len(sc.Hosts)
HealthcheckRecordNoReplicas(c) ==
    [name |-> c.HealthcheckDatabase, encrypted |-> FALSE, members |-> <<>>,
     repFactor |-> 0]

HealthcheckRecord(c) ==
    [name |-> c.HealthcheckDatabase, encrypted |-> FALSE, members |-> <<>>,
     repFactor |-> c.Hosts]

\* if errors.As(err, &databaseDoesNotExistError) { createDatabase(healthcheck
\* database, Encrypted: false, len(sc.Hosts)) } else if err != nil { return }
DeployHealthRet ==
    /\ pc = "deploy.healthRet"
    /\ ex.done
    /\ IF IsDatabaseDoesNotExistError(ex.err)
       THEN /\ loc' = [loc EXCEPT !.cdRec = HealthcheckRecord(sc),
                                  !.cdRet = "deploy.hcCreateRet",
                                  !.pollI = 0]
            /\ pc' = "cd.poll"
            /\ UNCHANGED ret
       ELSE IF ex.err # NoErr
       THEN /\ ret' = ex.err
            /\ pc' = "returned"
            /\ UNCHANGED loc
       ELSE /\ loc' = EnterPhase(loc)
            /\ pc' = "deleteDbs"
            /\ UNCHANGED ret
    /\ ex' = NoCall
    /\ UNCHANGED <<sc, log, cluster>>
    /\ UNCHANGED dpOthers

\* the createDatabase of the healthcheck database returned:
\* if err != nil { return "", err }; then deleteDatabases
DeployHcCreateRet ==
    /\ pc = "deploy.hcCreateRet"
    /\ IF ret # NoErr
       THEN /\ pc' = "returned"
            /\ UNCHANGED loc
       ELSE /\ loc' = EnterPhase(loc)
            /\ pc' = "deleteDbs"
    /\ UNCHANGED <<sc, ex, log, ret, cluster>>
    /\ UNCHANGED dpOthers

\* if err != nil { return err } of deleteDatabases, deleteIndexes and
\* createIndexes, and if err != nil { return "", err } of Deploy after each
PhaseFailedNever(e) == FALSE

PhaseFailed(e) == e # NoErr

\* deleteDatabases: for _, db := range sc.DatabasesToDelete { deleteDatabase },
\* a plain store.Maintenance().Server().Send; then createDatabases
DeleteDatabases ==
    /\ pc = "deleteDbs"
    /\ IF loc.idx <= Len(sc.DatabasesToDelete)
       THEN LET db == sc.DatabasesToDelete[loc.idx]
            IN  /\ log' = Append(log, Request("DeleteDatabases", db.Name, "", <<>>,
                                              db.HardDelete, 0))
                /\ ex' = StartCall("plain", "DeleteDatabases")
                /\ pc' = "deleteDbsRet"
                /\ UNCHANGED loc
       ELSE /\ loc' = EnterPhase(loc)
            /\ pc' = NextPhase("deleteDbs")
            /\ UNCHANGED <<log, ex>>
    /\ UNCHANGED <<sc, ret, cluster>>
    /\ UNCHANGED dpOthers

DeleteDatabasesRet ==
    /\ pc = "deleteDbsRet"
    /\ ex.done
    /\ IF PhaseFailed(ex.err)
       THEN /\ ret' = ex.err
            /\ pc' = "returned"
            /\ UNCHANGED loc
       ELSE /\ loc' = [loc EXCEPT !.idx = @ + 1]
            /\ pc' = "deleteDbs"
            /\ UNCHANGED ret
    /\ ex' = NoCall
    /\ UNCHANGED <<sc, log, cluster>>
    /\ UNCHANGED dpOthers

\* deleteIndexes: for every entry, for every index name, a plain Send of the
\* delete-index operation to the entry's database; then createIndexes
DeleteIndexes ==
    /\ pc = "deleteIxs"
    /\ IF loc.idx > Len(sc.IndexesToDelete)
       THEN /\ loc' = EnterPhase(loc)
            /\ pc' = NextPhase("deleteIxs")
            /\ UNCHANGED <<log, ex>>
       ELSE LET entry == sc.IndexesToDelete[loc.idx]
            IN  IF loc.sub > Len(entry.IndexesNames)
                THEN /\ loc' = [loc EXCEPT !.idx = @ + 1, !.sub = 1]
                     /\ UNCHANGED <<log, ex, pc>>
                ELSE /\ log' = Append(log, Request("DeleteIndex", entry.DatabaseName,
                                                   entry.IndexesNames[loc.sub], <<>>,
                                                   FALSE, 0))
                     /\ ex' = StartCall("plain", "DeleteIndex")
                     /\ pc' = "deleteIxsRet"
                     /\ UNCHANGED loc
    /\ UNCHANGED <<sc, ret, cluster>>
    /\ UNCHANGED dpOthers

DeleteIndexesRet ==
    /\ pc = "deleteIxsRet"
    /\ ex.done
    /\ IF PhaseFailed(ex.err)
       THEN /\ ret' = ex.err
            /\ pc' = "returned"
            /\ UNCHANGED loc
       ELSE /\ loc' = [loc EXCEPT !.sub = @ + 1]
            /\ pc' = "deleteIxs"
            /\ UNCHANGED ret
    /\ ex' = NoCall
    /\ UNCHANGED <<sc, log, cluster>>
    /\ UNCHANGED dpOthers

\* the ravendb.IndexDefinition of createIndexes as it is when the operation is
\* made of it, and the request that puts it
IndexDefinition(name, maps, reduce, configuration) ==
    [Name |-> name, Maps |-> maps, Reduce |-> reduce, Configuration |-> configuration]

PutIndexRequest(db, definition) ==
    [op |-> "PutIndexes", db |-> db, name |-> definition.Name,
     nodes |-> <<>>, flag |-> FALSE, n |-> 0, err |-> Pending,
     definition |-> definition]

\* createIndexes: one indexDefinition for all indexes; for every index its
\* maps are appended to indexDefinition.Maps and the definition is put with a
\* plain Send.  After the last index Deploy returns the topology id, nil.
CreateIndexes ==
    /\ pc = "createIxs"
    /\ IF loc.idx > Len(sc.Databases)
       THEN /\ ret' = NoErr
            /\ pc' = NextPhase("createIxs")
            /\ UNCHANGED <<loc, log, ex>>
       ELSE LET db == sc.Databases[loc.idx]
            IN  IF loc.sub > Len(db.Indexes)
                THEN /\ loc' = [loc EXCEPT !.idx = @ + 1, !.sub = 1]
                     /\ UNCHANGED <<log, ex, pc, ret>>
                ELSE LET ix   == db.Indexes[loc.sub]
                         maps == loc.maps \o ix.Maps
                     IN  /\ loc' = [loc EXCEPT !.maps = maps]
                         /\ log' = Append(log, PutIndexRequest(db.Name,
                                       IndexDefinition(ix.IndexName, maps, ix.Reduce,
                                                       ix.Configuration)))
                         /\ ex' = StartCall("plain", "PutIndexes")
                         /\ pc' = "createIxsRet"
                         /\ UNCHANGED ret
    /\ UNCHANGED <<sc, cluster>>
    /\ UNCHANGED dpOthers

CreateIndexesRet ==
    /\ pc = "createIxsRet"
    /\ ex.done
    /\ IF PhaseFailed(ex.err)
       THEN /\ ret' = ex.err
            /\ pc' = "returned"
            /\ UNCHANGED loc
       ELSE /\ loc' = [loc EXCEPT !.sub = @ + 1]
            /\ pc' = "createIxs"
            /\ UNCHANGED ret
    /\ ex' = NoCall
    /\ UNCHANGED <<sc, log, cluster>>
    /\ UNCHANGED dpOthers

(***************************************************************************)
(* SpecDeploy: one call of Deploy on a configuration of at most             *)
(* MaxDeployDatabases declared databases and MaxDeletes deletion intents    *)
(* of each kind, against a cluster of the nodes A and B.                    *)
(***************************************************************************)
DbName(k) == <<"db1", "db2", "db3", "db4">>[k]

OldName(k) == <<"old1", "old2", "old3">>[k]

Index(name, maps, reduce, configuration) ==
    [IndexName |-> name, Maps |-> maps, Reduce |-> reduce,
     Configuration |-> configuration]

\* database k declares one index, with one map function
DbIndexes(k) == <<Index(<<"ix1", "ix2", "ix3", "ix4">>[k],
                        <<(<<"map1", "map2", "map3", "map4">>[k])>>,
                        "reduce", "configuration")>>

\* what a declared database may be: replication nodes and encryption key
DbChoices ==
    {[nodes |-> <<"A">>, key |-> ""],
     [nodes |-> <<"a", "B">>, key |-> "key"],
     [nodes |-> <<"B">>, key |-> " "]}

\* the lists of at most n declared databases
DatabaseLists(n) ==
    UNION {{[k \in 1..m |-> Database(DbName(k), c[k].nodes, c[k].key, DbIndexes(k))] :
               c \in [1..m -> DbChoices]} : m \in 0..n}

DeployDatabases == DatabaseLists(MaxDeployDatabases)

\* len(sc.Hosts) of a Deploy
DeployHostCounts == {1, 2}

DeployDatabasesToDelete ==
    {[k \in 1..n |-> [Name |-> OldName(k), HardDelete |-> TRUE]] : n \in 0..MaxDeletes}

DeployIndexesToDelete ==
    {[k \in 1..n |-> [DatabaseName |-> DbName(1), IndexesNames |-> <<OldName(k)>>]] :
        n \in 0..MaxDeletes}

DpInit ==
    /\ \E dbs \in DeployDatabases, del \in DeployDatabasesToDelete,
          ixs \in DeployIndexesToDelete, hasStore \in BOOLEAN, hosts \in DeployHostCounts :
          sc = Config(hosts, hasStore, dbs, del, ixs)
    /\ cluster = {"A", "B"}
    /\ pc = "deploy.getStore"
    /\ loc = InitLoc(sc.Databases)
    /\ ex = NoCall
    /\ log = <<>>
    /\ ret = NoErr
    /\ RdIdle
    /\ HsIdle

DpNext ==
    \/ DeployGetStore
    \/ DeployTopologyRet
    \/ DeployHealthRet
    \/ DeployHcCreateRet
    \/ DeleteDatabases
    \/ DeleteDatabasesRet
    \/ CdbsDistribute
    \/ CdbsDistributeRet
    \/ CdbsCreate
    \/ CdbsCreateRet
    \/ CdbsModifyRet
    \/ CdPoll
    \/ CdPollRet
    \/ CdCreate
    \/ CdCreateRet
    \/ MdFetch
    \/ MdDeleteRet
    \/ MdAdd
    \/ MdAddRet
    \/ DeleteIndexes
    \/ DeleteIndexesRet
    \/ CreateIndexes
    \/ CreateIndexesRet
    \/ ExSend

SpecDeploy == DpInit /\ [][DpNext]_vars

(***************************************************************************)
(* SpecCreate: createDatabases alone, on at most MaxDatabases declared      *)
(* databases.  It ends at pc = "deleteIxs" when createDatabases returned    *)
(* nil (Deploy would go on), at "returned" when it returned the error ret,  *)
(* at "panic" when it crashed.                                              *)
(***************************************************************************)
CrInit ==
    /\ \E dbs \in DatabaseLists(MaxDatabases) :
          sc = Config(1, TRUE, dbs, <<>>, <<>>)
    /\ cluster = {"A", "B"}
    /\ pc = "cdbs.distribute"
    /\ loc = InitLoc(sc.Databases)
    /\ ex = NoCall
    /\ log = <<>>
    /\ ret = NoErr
    /\ RdIdle
    /\ HsIdle

CrNext ==
    \/ CdbsDistribute
    \/ CdbsDistributeRet
    \/ CdbsCreate
    \/ CdbsCreateRet
    \/ CdbsModifyRet
    \/ CdPoll
    \/ CdPollRet
    \/ CdCreate
    \/ CdCreateRet
    \/ MdFetch
    \/ MdDeleteRet
    \/ MdAdd
    \/ MdAddRet
    \/ ExSend

SpecCreate == CrInit /\ [][CrNext]_vars

(***************************************************************************)
(* executeWithRetries, as Deploy calls it                                   *)
(***************************************************************************)
\* a call of executeWithRetries that has returned and whose result the caller
\* has not consumed yet
ServerCallReturned == ex.kind = "server" /\ ex.done

\* C2: executeWithRetries that meets k no-leader failures (0 <= k <= 4) and
\* then a success returns nil after exactly k+1 sends and k sleeps of 5
\* seconds; it never gives up before the fifth no-leader failure, and no
\* execution sends more than 5 times.
C2_NoLeaderRetry ==
    ex.kind = "server" =>
       /\ ex.sends <= NUMBER_OF_RETRIES
       /\ (~ex.done => ex.sends = ex.noLeader /\ ex.noLeader < NUMBER_OF_RETRIES)
       /\ (ex.done /\ ex.err = NoErr =>
              /\ ex.noLeader <= NUMBER_OF_RETRIES - 1
              /\ ex.sends = ex.noLeader + 1
              /\ ex.sleeps = ex.noLeader
              /\ ex.slept = RetryDelaySeconds * ex.noLeader)
       /\ (ex.done /\ IsNoLeaderError(ex.err) => ex.noLeader = NUMBER_OF_RETRIES)

\* three no-leader failures, then success: 4 sends, 15 seconds of sleep
C2_Witness ==
    /\ ServerCallReturned
    /\ ex.err = NoErr
    /\ ex.noLeader = 3
    /\ ex.sends = 4
    /\ ex.slept = 3 * RetryDelaySeconds

\* C3: when a send of executeWithRetries fails with an error that is no
\* no-leader error, the call returns that error at once: the failing send is
\* the last one and no sleep follows it.
C3_OtherErrorImmediate ==
    (ServerCallReturned /\ ex.err # NoErr /\ ~IsNoLeaderError(ex.err)) =>
       /\ ex.sends = ex.noLeader + 1
       /\ ex.sleeps = ex.noLeader
       /\ (log # <<>> /\ IsLogged(ex.op)) => log[Len(log)].err = ex.err

\* two no-leader failures, then another error on the third send
C3_Witness ==
    /\ ServerCallReturned
    /\ ex.err = ErrOther
    /\ ex.noLeader = 2
    /\ ex.sends = 3
    /\ ex.sleeps = 2

(***************************************************************************)
(* createDatabases                                                          *)
(***************************************************************************)
\* createDatabases has returned nil
CreateDatabasesReturnedNil == pc = NextPhase("createDbs")

\* createDatabases has returned, with or without an error, or crashed
CreateDatabasesEnded == pc \in {NextPhase("createDbs"), "returned", "panic"}

\* database k exists with live members equal to its declared nodes: its
\* create was answered "already exists" and the topology fetched by
\* modifyDatabase holds the declared nodes and no other
Converged(k) ==
    /\ loc.hist[k].created = ErrAlreadyExists
    /\ loc.hist[k].fetched
    /\ Excess(loc.hist[k]) = {}
    /\ Missing(loc.hist[k]) = {}

\* the requests that change the membership of database db
MemberRequests(db) ==
    {d \in RequestsOf("DeleteDatabases", db) : log[d].nodes # <<>>}
       \cup RequestsOf("AddDatabaseNode", db)

\* C5: when every declared database exists with live members equal to its
\* declared replication nodes, createDatabases issues no delete-from-node and
\* no add-database-node request, and it ends by returning nil.
C5_Idempotent ==
    /\ \A k \in 1..Len(sc.Databases) :
          Converged(k) => MemberRequests(sc.Databases[k].Name) = {}
    /\ (\A k \in 1..Len(sc.Databases) : Converged(k)) =>
          (CreateDatabasesEnded => CreateDatabasesReturnedNil /\ ret = NoErr)

\* two converged databases, one of them encrypted and declared with a tag in
\* lower case, and createDatabases has returned nil
C5_Witness ==
    /\ Len(sc.Databases) = 2
    /\ \A k \in 1..2 : Converged(k)
    /\ \E k \in 1..2 : loc.hist[k].declared = <<"a", "B">>
    /\ CreateDatabasesReturnedNil
    /\ RequestsOf("CreateDatabase", "db1") # {}
    /\ RequestsOf("CreateDatabase", "db2") # {}

\* the declared databases with an encryption key
Keyed == {k \in 1..Len(sc.Databases) : HasKey(sc.Databases[k].Key)}

\* the successful distribution of the key of database k to all its
\* replication nodes is in the log before position c
DistributedBefore(k, c) ==
    \E d \in RequestsOf("DistributeSecretKey", sc.Databases[k].Name) :
       /\ d < c
       /\ log[d].nodes = loc.hist[k].declared
       /\ log[d].err = NoErr

\* C7: the create-database request of a database with an encryption key is
\* issued only after the distribute-secret-key request naming all its
\* replication nodes has succeeded; when a distribution has failed, no
\* create-database request is issued for that database.
C7_DistributeBeforeCreate ==
    \A k \in Keyed :
       /\ \A c \in RequestsOf("CreateDatabase", sc.Databases[k].Name) :
             DistributedBefore(k, c)
       /\ (\E d \in RequestsOf("DistributeSecretKey", sc.Databases[k].Name) :
              log[d].err \notin {NoErr, Pending})
            => RequestsOf("CreateDatabase", sc.Databases[k].Name) = {}

\* the second of two databases is encrypted: its key went to a and B, the
\* first database was handled, then the create of the second was issued
C7_Witness ==
    /\ Len(sc.Databases) = 2
    /\ Keyed = {2}
    /\ \E c \in RequestsOf("CreateDatabase", "db2") :
          /\ log[c].flag
          /\ DistributedBefore(2, c)
          /\ \E d \in RequestsOf("DistributeSecretKey", "db2") :
                log[d].nodes = <<"a", "B">> /\ d < c

\* C8 as stated: when createDatabases returns nil, a create-database request
\* has been issued for every declared database.
C8_EveryDatabaseCreated ==
    CreateDatabasesReturnedNil =>
       \A k \in 1..Len(sc.Databases) :
          RequestsOf("CreateDatabase", sc.Databases[k].Name) # {}

(***************************************************************************)
(* The order of Deploy                                                      *)
(***************************************************************************)
Positions == 1..Len(log)

\* the requests of Deploy's phases
IsDeleteDatabase(r) == r.op = "DeleteDatabases" /\ r.nodes = <<>>

IsDeleteIndex(r) == r.op = "DeleteIndex"

IsCreateDeclared(r) == r.op = "CreateDatabase" /\ r.db # sc.HealthcheckDatabase

IsPutIndex(r) == r.op = "PutIndexes"

IsHealthcheckCreate(r) == r.op = "CreateDatabase" /\ r.db = sc.HealthcheckDatabase

\* C6 as stated: every delete request for a database to delete and every
\* delete request for an index to delete is issued before the first
\* create-database request for a declared database.
C6_AllDeletesBeforeCreates ==
    \A i, j \in Positions :
       ((IsDeleteDatabase(log[i]) \/ IsDeleteIndex(log[i])) /\ IsCreateDeclared(log[j]))
          => i < j

\* C6, the order of the code: the deletes of databases come before every
\* create-database request for a declared database; the deletes of indexes
\* come after those creates and before every put of an index.
C6_DeleteOrder ==
    \A i, j \in Positions :
       /\ (IsDeleteDatabase(log[i]) /\ IsCreateDeclared(log[j])) => i < j
       /\ (IsCreateDeclared(log[i]) /\ IsDeleteIndex(log[j])) => i < j
       /\ (IsDeleteIndex(log[i]) /\ IsPutIndex(log[j])) => i < j

\* a Deploy that deleted a database, created one, deleted an index and put one
C6_Witness ==
    /\ pc = "returned"
    /\ ret = NoErr
    /\ \E a, b, c, d \in Positions :
          /\ a < b /\ b < c /\ c < d
          /\ IsDeleteDatabase(log[a])
          /\ IsCreateDeclared(log[b])
          /\ IsDeleteIndex(log[c])
          /\ IsPutIndex(log[d])

\* Deploy is past its healthcheck phase: in one of the delete/create phases,
\* or returned without error
PastHealthcheck ==
    \/ pc \in {"deleteDbs", "deleteDbsRet", "cdbs.distribute", "cdbs.distributeRet",
               "cdbs.create", "cdbs.createRet", "cdbs.modifyRet", "md.fetch",
               "md.deleteRet", "md.add", "md.addRet", "deleteIxs", "deleteIxsRet",
               "createIxs", "createIxsRet"}
    \/ pc \in {"cd.poll", "cd.pollRet", "cd.create", "cd.createRet"}
          /\ loc.cdRet # "deploy.hcCreateRet"
    \/ pc = "returned" /\ ret = NoErr

\* C9 as stated: after the create of the healthcheck database the probe is
\* sent again before the delete/create phases.
C9_ProbeAgainAfterCreate ==
    \A c \in Positions :
       (IsHealthcheckCreate(log[c]) /\ PastHealthcheck)
          => \E p \in Positions : p > c /\ log[p].op = "HealthCheck"

\* C9, what the code does: the probe is called once; when it reports that the
\* healthcheck database does not exist, the next request creates that database
\* unencrypted with replication factor len(sc.Hosts), and Deploy enters the
\* delete/create phases once that create succeeded, with no second probe.
C9_CreateWithoutSecondProbe ==
    /\ Cardinality({p \in Positions : log[p].op = "HealthCheck"}) <= 1
    /\ \A c \in Positions : IsHealthcheckCreate(log[c]) =>
          /\ c = 2
          /\ log[1].op = "HealthCheck"
          /\ IsDatabaseDoesNotExistError(log[1].err)
          /\ ~log[c].flag
          /\ log[c].n = sc.Hosts
          /\ log[c].nodes = <<>>
    /\ (PastHealthcheck /\ log # <<>> /\ IsDatabaseDoesNotExistError(log[1].err)) =>
          /\ Len(log) >= 2
          /\ IsHealthcheckCreate(log[2])
          /\ log[2].err \in {NoErr, ErrConcurrency}

\* two hosts, the healthcheck database missing: created with replication
\* factor 2, and Deploy went on to delete a database
C9_Witness ==
    /\ sc.Hosts = 2
    /\ Len(log) >= 3
    /\ IsDatabaseDoesNotExistError(log[1].err)
    /\ IsHealthcheckCreate(log[2])
    /\ log[2].n = 2
    /\ IsDeleteDatabase(log[3])

(***************************************************************************)
(* The remote executor: execute and upload on the connection of one host.   *)
(*                                                                          *)
(* An error is a record: kind "nil" (no error), "error" (a plain error      *)
(* with its message) or "DeployError" (Err and the Output transcript).      *)
(* stdoutBuf is the sequence of the pieces written to it; what ran on the   *)
(* host is kept in the history field ran of the task.                       *)
(***************************************************************************)
NilError == [kind |-> "nil", msg |-> "", Output |-> <<>>]

PlainError(msg) == [kind |-> "error", msg |-> msg, Output |-> <<>>]

\* &DeployError{Err: err, Output: stdoutBuf.String()}
DeployError(msg, buf) == [kind |-> "DeployError", msg |-> msg, Output |-> buf]

\* one piece of the transcript, one thing done on the host
Line(tag, text) == [tag |-> tag, text |-> text]

Event(op, arg) == [op |-> op, arg |-> arg]

\* no execute call and no upload call
NoExecute == [cmds |-> <<>>, k |-> 1, onErr |-> "", after |-> ""]

NoUpload == [path |-> "", after |-> ""]

\* a task that has not started
NewTask ==
    [pc |-> "new", ret |-> NilError, buf |-> <<>>, ran |-> <<>>,
     x |-> NoExecute, up |-> NoUpload, scheme |-> "", settings |-> {},
     httpUrl |-> "", setup |-> "", assets |-> {}, calls |-> 0]

\* session.Run(cmd) of golang.org/x/crypto/ssh: a Session accepts one call of
\* Run; a second Run on it returns "ssh: session already started" and the
\* command is not sent to the host
SessionRunAgain(started) == TRUE

SessionRun(started) == ~started

\* sc.execute(publicIp, commands, onErr, &stdoutBuf, conn) is called:
\* stdoutBuf.WriteString(publicIp), then the loop over the commands
ExecuteBegin(t, publicIp, commands, onErr, after) ==
    [t EXCEPT !.buf = Append(@, Line("ip", publicIp)),
              !.x = [cmds |-> commands, k |-> 1, onErr |-> onErr, after |-> after],
              !.pc = IF commands = <<>> THEN after ELSE "execute"]

\* what session.Run calls of one iteration reach the host: the command, and
\* the command once more when it failed, onErr is not empty and the session
\* takes the second Run
RunsOnHost(cmd, outcome, onErr) ==
    IF outcome = "noSession" THEN <<>>
    ELSE (IF SessionRun(FALSE) THEN <<Event("run", cmd)>> ELSE <<>>)
         \o (IF outcome = "fail" /\ onErr # "" /\ SessionRun(TRUE)
             THEN <<Event("run", cmd)>> ELSE <<>>)

\* one iteration of the loop of execute.  outcome: "noSession" (NewSession
\* failed), "ok" or "fail" (session.Run returned nil or an error)
ExecuteIteration(t, outcome) ==
    LET cmd    == t.x.cmds[t.x.k]
        echoed == t.buf \o <<Line("cmd", cmd), Line("cmd", cmd)>>
        out    == IF outcome = "noSession" THEN echoed
                  ELSE Append(echoed, Line("out", cmd))
        ran    == t.ran \o RunsOnHost(cmd, outcome, t.x.onErr)
    IN  CASE outcome = "noSession" ->
               [t EXCEPT !.buf = out, !.ret = PlainError("NewSession"),
                         !.pc = "returned"]
          [] outcome = "fail" ->
               [t EXCEPT !.buf = out, !.ran = ran,
                         !.ret = DeployError(cmd, out), !.pc = "returned"]
          [] outcome = "ok" ->
               [t EXCEPT !.buf = out, !.ran = ran, !.x.k = @ + 1,
                         !.pc = IF t.x.k = Len(t.x.cmds) THEN t.x.after ELSE "execute"]

\* errors.New("Failed to ownership: " + path + "\n" + err.Error() + "\n")
OwnershipErrorWithTranscript(path, buf) == DeployError("Failed to ownership", buf)

OwnershipError(path, buf) == PlainError("Failed to ownership")

\* upload(con, buf, path, content): buf is a copy of the caller's buffer, so
\* the caller's stdoutBuf does not change.  outcome: "noSession", "noPipe",
\* "copyFail", "noSession2", "chownFail" or "ok"
UploadResult(t, path, outcome) ==
    LET scp    == <<Line("cmd", "sudo scp -t"), Line("out", "sudo scp -t")>>
        chown  == <<Line("cmd", "sudo chown ravendb:ravendb"),
                    Line("out", "sudo chown ravendb:ravendb")>>
        copied == Append(t.ran, Event("scp", path))
        owned  == Append(copied, Event("chown", path))
    IN  CASE outcome = "noSession"  -> [ran |-> t.ran,  ret |-> PlainError("NewSession")]
          [] outcome = "noPipe"     -> [ran |-> t.ran,  ret |-> PlainError("StdinPipe")]
          [] outcome = "copyFail"   -> [ran |-> copied,
                                        ret |-> DeployError("scp", t.buf \o scp)]
          [] outcome = "noSession2" -> [ran |-> copied, ret |-> PlainError("NewSession")]
          [] outcome = "chownFail"  -> [ran |-> owned,
                                        ret |-> OwnershipError(path, t.buf \o scp \o chown)]
          [] outcome = "ok"         -> [ran |-> owned,  ret |-> NilError]

UploadBegin(t, path, after) ==
    [t EXCEPT !.up = [path |-> path, after |-> after], !.pc = "upload"]

\* what may happen to a call: everything when hsCfg.faults is "all"; with
\* "steps" a session can always be opened, so a step either succeeds or its
\* command fails
ExecuteOutcomes ==
    IF hsCfg.faults = "all" THEN {"noSession", "ok", "fail"} ELSE {"ok", "fail"}

UploadOutcomes ==
    IF hsCfg.faults = "all"
    THEN {"noSession", "noPipe", "copyFail", "noSession2", "chownFail", "ok"}
    ELSE {"copyFail", "ok"}

\* the process has crashed: a panic in any goroutine ends it
Crashed == \E h \in DOMAIN hsTask : hsTask[h].pc = "panic"

\* the next command of the running execute call of host h
HostExecute(h) ==
    /\ ~Crashed
    /\ hsTask[h].pc = "execute"
    /\ \E outcome \in ExecuteOutcomes :
          hsTask' = [hsTask EXCEPT ![h] = ExecuteIteration(@, outcome)]
    /\ UNCHANGED <<hsCfg, hsFan, hsUrlList>>
    /\ UNCHANGED hsOthers

\* the loop of execute to its end: the command failAt fails, or none when
\* failAt is 0; NewSession succeeds
RECURSIVE ExecuteLoop(_, _)
ExecuteLoop(t, failAt) ==
    IF t.pc # "execute" THEN t
    ELSE ExecuteLoop(ExecuteIteration(t, IF t.x.k = failAt THEN "fail" ELSE "ok"), failAt)

\* the running execute call of host h, from its first command to its return:
\* every command succeeds, or the commands before the last one succeed and the
\* last one fails
HostExecuteCall(h) ==
    /\ ~Crashed
    /\ hsTask[h].pc = "execute"
    /\ \E failAt \in {0, Len(hsTask[h].x.cmds)} :
          hsTask' = [hsTask EXCEPT ![h] = ExecuteLoop(@, failAt)]
    /\ UNCHANGED <<hsCfg, hsFan, hsUrlList>>
    /\ UNCHANGED hsOthers

\* the upload call of host h; if err != nil { return err }
HostUpload(h) ==
    /\ ~Crashed
    /\ hsTask[h].pc = "upload"
    /\ \E outcome \in UploadOutcomes :
          LET r == UploadResult(hsTask[h], hsTask[h].up.path, outcome)
          IN  hsTask' = [hsTask EXCEPT ![h].ran = r.ran,
                                       ![h].ret = r.ret,
                                       ![h].pc = IF r.ret = NilError
                                                 THEN hsTask[h].up.after
                                                 ELSE "returned"]
    /\ UNCHANGED <<hsCfg, hsFan, hsUrlList>>
    /\ UNCHANGED hsOthers

(***************************************************************************)
(* SpecRemote: one call of execute on a list of at most MaxCommands         *)
(* commands, or one call of upload, on a buffer that may hold an earlier    *)
(* transcript.                                                              *)
(***************************************************************************)
RemoteCommands == {"c1", "c2"}

CommandLists == UNION {[1..n -> RemoteCommands] : n \in 0..MaxCommands}

EarlierTranscripts == {<<>>, <<Line("out", "earlier")>>}

NoFan == [pc |-> "none", index |-> 1, wg |-> 0, errorsChannel |-> <<>>,
          closed |-> FALSE, result |-> <<>>]

HostConfig(op, hosts, parallel, unsecured, zip, assets, faults) ==
    [op |-> op, Hosts |-> hosts, parallel |-> parallel, Unsecured |-> unsecured,
     ClusterSetupZip |-> zip, Assets |-> assets, faults |-> faults]

RemoteInit ==
    /\ hsUrlList = <<>>
    /\ hsFan = NoFan
    /\ \E buf \in EarlierTranscripts :
          \/ /\ hsCfg = HostConfig("execute", 1, FALSE, FALSE, {}, {}, "all")
             /\ \E cmds \in CommandLists, onErr \in {"", "status"} :
                   hsTask = [h \in {1} |->
                               ExecuteBegin([NewTask EXCEPT !.buf = buf], "host",
                                            cmds, onErr, "done")]
          \/ /\ hsCfg = HostConfig("upload", 1, FALSE, FALSE, {}, {}, "all")
             /\ hsTask = [h \in {1} |->
                            UploadBegin([NewTask EXCEPT !.buf = buf], "/path", "done")]
    /\ RdIdle
    /\ DpIdle

RemoteNext == HostExecute(1) \/ HostUpload(1)

SpecRemote == RemoteInit /\ [][RemoteNext]_vars

(***************************************************************************)
(* Claims on execute and upload (SpecRemote).                               *)
(***************************************************************************)
\* the call under SpecRemote
RemoteTask == hsTask[1]

\* the commands 1..k as they run on the host, in list order
RunPrefix(cmds, k) == [j \in 1..k |-> Event("run", cmds[j])]

\* what the first k iterations of execute write to the buffer
RECURSIVE Echoes(_, _)
Echoes(cmds, k) ==
    IF k = 0 THEN <<>>
    ELSE Echoes(cmds, k - 1)
           \o <<Line("cmd", cmds[k]), Line("cmd", cmds[k]), Line("out", cmds[k])>>

\* the buffer after the first k commands of the call have run
TranscriptUpTo(cmds, k) ==
    {earlier \o <<Line("ip", "host")>> \o Echoes(cmds, k) : earlier \in EarlierTranscripts}

C12_OnErrExecuted ==
    (hsCfg.op = "execute" /\ RemoteTask.pc = "returned"
       /\ RemoteTask.ret.kind = "DeployError") =>
       LET t == RemoteTask
           after == SubSeq(t.ran, t.x.k + 1, Len(t.ran))
       IN  IF t.x.onErr # "" THEN after = <<Event("run", t.x.onErr)>>
           ELSE after = <<>>

Addresses == {"addr1", "addr2", "addr3", "addr4", "addr6"}

\* ip.String()
IPString(ip) ==
    CASE ip = "addr1" -> "10.0.0.1"
      [] ip = "addr2" -> "10.0.0.2"
      [] ip = "addr3" -> "10.0.0.3"
      [] ip = "addr4" -> "10.0.0.4"
      [] ip = "addr6" -> "2001:db8::1"

LookupError == [err |-> TRUE, ips |-> <<>>]

Resolved(ips) == [err |-> FALSE, ips |-> ips]

DomainNames == {"a.example", "b.example", "c.example", "d.example"}

\* url.Parse(httpUrl) and the field Host of the result: the host name and,
\* when the url has one, the port
UrlHost(httpUrl) ==
    CASE httpUrl = ""                        -> ""
      [] httpUrl = "https://a.example"       -> "a.example"
      [] httpUrl = "https://b.example"       -> "b.example"
      [] httpUrl = "https://c.example"       -> "c.example"
      [] httpUrl = "https://d.example"       -> "d.example"
      [] httpUrl = "https://a.example:38888" -> "a.example:38888"

\* net.LookupIP(host): the answer of the name servers for a domain name, an
\* error ("no such host") for the empty string and for a host with a port
LookupIP(host, answer) == IF host \in DomainNames THEN answer ELSE LookupError

\* the pieces of the message of the outdated-result error
DnsMessage(host, hostIp, strings) ==
    <<"Tried to resolve", host, "Expected to get these ips:", hostIp,
      "while the actual result was:">> \o strings

\* if hostIp == ip.String() { isUpdatedDns = true }
IsUpdatedDns(strings, hostIp) == \E i \in 1..Len(strings) : strings[i] = hostIp

\* answer is what the name servers hold for the host name of httpUrl
GetDnsLookup(httpUrl, answer, hostIp) ==
    LET lookup == LookupIP(UrlHost(httpUrl), answer)
        ipsStringSlice == [i \in 1..Len(lookup.ips) |-> IPString(lookup.ips[i])]
    IN  IF lookup.err THEN [kind |-> "lookup", message |-> <<>>]
        ELSE IF ~IsUpdatedDns(ipsStringSlice, hostIp)
        THEN [kind |-> "outdated",
              message |-> DnsMessage(UrlHost(httpUrl), hostIp, ipsStringSlice)]
        ELSE [kind |-> "nil", message |-> <<>>]

(***************************************************************************)
(* deployServer(publicIP, index), step by step.  A step either goes on to   *)
(* the next one or makes deployServer return its error.                     *)
(***************************************************************************)
HostIp(h) == <<"10.0.0.1", "10.0.0.2", "10.0.0.3", "10.0.0.4">>[h]

\* string(rune(index + 'A'))
NodeTag(h) == <<"A", "B", "C", "D">>[h]

\* the PublicServerUrl of the settings.json of host h
PublicUrl(h) == <<"https://a.example", "https://b.example", "https://c.example",
                  "https://d.example">>[h]

InstallCommands == <<"wait for cloud-init", "wget ravendb.deb", "apt-get update",
                     "apt-get install ravendb.deb">>

RestartCommands == <<"chown license.json", "systemctl restart ravendb",
                     "curl /setup/alive">>

\* the order of the steps after the settings were built
DsNextRestartFirst(step) ==
    CASE step = "license"   -> "nodeSetup"
      [] step = "nodeSetup" -> "pfx"
      [] step = "pfx"       -> "chownPfx"
      [] step = "chownPfx"  -> "assets"
      [] step = "assets"    -> "restart"
      [] step = "restart"   -> "dns"
      [] step = "dns"       -> "done"

DsNext(step) ==
    CASE step = "license"   -> "nodeSetup"
      [] step = "nodeSetup" -> "pfx"
      [] step = "pfx"       -> "chownPfx"
      [] step = "chownPfx"  -> "assets"
      [] step = "assets"    -> "dns"
      [] step = "dns"       -> "restart"
      [] step = "restart"   -> "done"

\* return err
Return(t, err) == [t EXCEPT !.ret = err, !.pc = "returned"]

\* signer, err := ssh.ParsePrivateKey(sc.SSH.Pem)
DsParseKey(h) ==
    /\ ~Crashed
    /\ hsTask[h].pc = "parseKey"
    /\ \E ok \in BOOLEAN :
          hsTask' = [hsTask EXCEPT ![h] =
                        IF ok THEN [@ EXCEPT !.pc = "connect"]
                        ELSE Return(@, PlainError("ParsePrivateKey"))]
    /\ UNCHANGED <<hsCfg, hsFan, hsUrlList>>
    /\ UNCHANGED hsOthers

\* conn, err = sc.ConnectToRemoteWithRetry(...); then the install commands
DsConnect(h) ==
    /\ ~Crashed
    /\ hsTask[h].pc = "connect"
    /\ \E ok \in BOOLEAN :
          hsTask' = [hsTask EXCEPT ![h] =
                        IF ok THEN ExecuteBegin(@, HostIp(h), InstallCommands, "", "settings")
                        ELSE Return(@, PlainError(ErrUnreachable))]
    /\ UNCHANGED <<hsCfg, hsFan, hsUrlList>>
    /\ UNCHANGED hsOthers

\* var settings map[string]interface{}; scheme := "https";
\* if sc.Unsecured { settings["Security.UnsecuredAccessAllowed"] = ...; scheme = "http" }
\* the assignment to an entry of the nil map panics
SchemeStep(unsecured) ==
    [panic |-> unsecured, scheme |-> "https", settings |-> {}]

\* the settings after setupUrls and ExtractSettingsAfterReadingZipPackage
\* in secured mode
SecuredSettings ==
    {"PublicServerUrl", "PublicServerUrl.Tcp", "ServerUrl", "ServerUrl.Tcp",
     "License.Path", "Security.Certificate.Path", "License.Eula.Accepted",
     "Setup.Mode"}

\* the outcomes of setupUrls: "ok"; "badJson" (json.Unmarshal failed: it
\* returns "", nil); "noUrl" (no PublicServerUrl in the settings: an error);
\* "badUrl" (sc.Url.List[index] was set, then url.Parse failed: an error)
SetupOutcomes ==
    IF hsCfg.faults = "all" THEN {"ok", "badJson", "noUrl", "badUrl"} ELSE {"ok", "noUrl"}

\* sc.Url.List[index] = val.(string), index being the copy of the loop index
\* that the task of the host was given
UrlListSet(list, index, url) == [list EXCEPT ![index] = url]

\* lines 444-463: scheme, setupUrls, ExtractSettingsAfterReadingZipPackage,
\* json.MarshalIndent
DsSettings(h) ==
    /\ ~Crashed
    /\ hsTask[h].pc = "settings"
    /\ LET s == SchemeStep(hsCfg.Unsecured)
           t == [hsTask[h] EXCEPT !.scheme = s.scheme, !.settings = s.settings]
       IN  IF s.panic
           THEN /\ hsTask' = [hsTask EXCEPT ![h] = [t EXCEPT !.pc = "panic"]]
                /\ UNCHANGED hsUrlList
           ELSE \E outcome \in SetupOutcomes :
                  /\ hsUrlList' = IF outcome \in {"ok", "badUrl"}
                                  THEN UrlListSet(hsUrlList, h, PublicUrl(h))
                                  ELSE hsUrlList
                  /\ hsTask' = [hsTask EXCEPT ![h] =
                        CASE outcome = "ok" ->
                               [t EXCEPT !.setup = outcome, !.httpUrl = PublicUrl(h),
                                         !.settings = SecuredSettings, !.pc = "license"]
                          [] outcome = "badJson" ->
                               [t EXCEPT !.setup = outcome, !.pc = "license"]
                          [] outcome = "noUrl" ->
                               Return([t EXCEPT !.setup = outcome],
                                      PlainError("'PublicServerUrl' setting was not found"))
                          [] outcome = "badUrl" ->
                               Return([t EXCEPT !.setup = outcome], PlainError("url.Parse"))]
    /\ UNCHANGED <<hsCfg, hsFan>>
    /\ UNCHANGED hsOthers

\* if rootFolderItems, ok := sc.ClusterSetupZip["store"]; ok { upload license.json }
DsLicense(h) ==
    /\ ~Crashed
    /\ hsTask[h].pc = "license"
    /\ hsTask' = [hsTask EXCEPT ![h] =
                    IF "store" \in hsCfg.ClusterSetupZip
                    THEN UploadBegin(@, "/etc/ravendb/license.json", DsNext("license"))
                    ELSE [@ EXCEPT !.pc = DsNext("license")]]
    /\ UNCHANGED <<hsCfg, hsFan, hsUrlList>>
    /\ UNCHANGED hsOthers

\* if nodeSetupContent, ok := sc.ClusterSetupZip[idx]; ok { upload settings.json; ... }
DsNodeSetup(h) ==
    /\ ~Crashed
    /\ hsTask[h].pc = "nodeSetup"
    /\ hsTask' = [hsTask EXCEPT ![h] =
                    IF NodeTag(h) \in hsCfg.ClusterSetupZip
                    THEN UploadBegin(@, "/etc/ravendb/settings.json", DsNext("nodeSetup"))
                    ELSE [@ EXCEPT !.pc = "assets"]]
    /\ UNCHANGED <<hsCfg, hsFan, hsUrlList>>
    /\ UNCHANGED hsOthers

\* if sc.Unsecured == false { upload server.pfx }
DsPfx(h) ==
    /\ ~Crashed
    /\ hsTask[h].pc = "pfx"
    /\ hsTask' = [hsTask EXCEPT ![h] =
                    IF ~hsCfg.Unsecured
                    THEN UploadBegin(@, "/etc/ravendb/security/server.pfx", DsNext("pfx"))
                    ELSE [@ EXCEPT !.pc = DsNext("pfx")]]
    /\ UNCHANGED <<hsCfg, hsFan, hsUrlList>>
    /\ UNCHANGED hsOthers

\* execute: sudo chown ravendb:ravendb /etc/ravendb/security/server.pfx
DsChownPfx(h) ==
    /\ ~Crashed
    /\ hsTask[h].pc = "chownPfx"
    /\ hsTask' = [hsTask EXCEPT ![h] =
                    ExecuteBegin(@, HostIp(h), <<"chown server.pfx">>,
                                 "systemctl status ravendb", DsNext("chownPfx"))]
    /\ UNCHANGED <<hsCfg, hsFan, hsUrlList>>
    /\ UNCHANGED hsOthers

\* for path, content := range sc.Assets { execute mkdir; upload }: the order
\* of a range over a map is not fixed
DsAssets(h) ==
    /\ ~Crashed
    /\ hsTask[h].pc = "assets"
    /\ IF hsTask[h].assets = {}
       THEN hsTask' = [hsTask EXCEPT ![h].pc = DsNext("assets")]
       ELSE \E path \in hsTask[h].assets :
              hsTask' = [hsTask EXCEPT ![h] =
                            ExecuteBegin([@ EXCEPT !.assets = @ \ {path},
                                                   !.up = [path |-> path,
                                                           after |-> "assets"]],
                                         HostIp(h), <<"mkdir">>, "", "assetUpload")]
    /\ UNCHANGED <<hsCfg, hsFan, hsUrlList>>
    /\ UNCHANGED hsOthers

\* err = upload(conn, stdoutBuf, path, content)
DsAssetUpload(h) ==
    /\ ~Crashed
    /\ hsTask[h].pc = "assetUpload"
    /\ hsTask' = [hsTask EXCEPT ![h] = UploadBegin(@, @.up.path, "assets")]
    /\ UNCHANGED <<hsCfg, hsFan, hsUrlList>>
    /\ UNCHANGED hsOthers

\* the address of host h
HostAddress(h) == <<"addr1", "addr2", "addr3", "addr4">>[h]

\* what the name servers may hold for the url of host h: a list with the
\* address of the host, a list without it, an error
Lookups(h) ==
    {Resolved(<<"addr6", HostAddress(h)>>), Resolved(<<"addr6">>)}
       \cup (IF hsCfg.faults = "all" THEN {LookupError} ELSE {})

\* err = GetDnsLookup(httpUrl, sc.Hosts[index]); if err != nil { return err }
DsDns(h) ==
    /\ ~Crashed
    /\ hsTask[h].pc = "dns"
    /\ \E answer \in Lookups(h) :
          LET r == GetDnsLookup(hsTask[h].httpUrl, answer, HostIp(h))
              t == [hsTask[h] EXCEPT !.ran = Append(@, Event("dns", r.kind))]
          IN  hsTask' = [hsTask EXCEPT ![h] =
                            IF r.kind = "nil" THEN [t EXCEPT !.pc = DsNext("dns")]
                            ELSE Return(t, PlainError("dns"))]
    /\ UNCHANGED <<hsCfg, hsFan, hsUrlList>>
    /\ UNCHANGED hsOthers

\* execute: chown license.json, restart, the liveness poll; then return nil
DsRestart(h) ==
    /\ ~Crashed
    /\ hsTask[h].pc = "restart"
    /\ hsTask' = [hsTask EXCEPT ![h] =
                    ExecuteBegin(@, HostIp(h), RestartCommands,
                                 "systemctl status ravendb", DsNext("restart"))]
    /\ UNCHANGED <<hsCfg, hsFan, hsUrlList>>
    /\ UNCHANGED hsOthers

(***************************************************************************)
(* purgeRavenDbInstance(publicIP)                                           *)
(***************************************************************************)
PurgeParseKey(h) ==
    /\ ~Crashed
    /\ hsTask[h].pc = "purge.parseKey"
    /\ \E ok \in BOOLEAN :
          hsTask' = [hsTask EXCEPT ![h] =
                        IF ok THEN [@ EXCEPT !.pc = "purge.dial"]
                        ELSE Return(@, PlainError("ParsePrivateKey"))]
    /\ UNCHANGED <<hsCfg, hsFan, hsUrlList>>
    /\ UNCHANGED hsOthers

\* conn, err := ssh.Dial(...); then execute: sudo apt-get -y purge ravendb;
\* purgeRavenDbInstance returns the error of execute
PurgeDial(h) ==
    /\ ~Crashed
    /\ hsTask[h].pc = "purge.dial"
    /\ \E ok \in BOOLEAN :
          hsTask' = [hsTask EXCEPT ![h] =
                        IF ok THEN ExecuteBegin(@, HostIp(h), <<"apt-get purge ravendb">>,
                                                "", "done")
                        ELSE Return(@, PlainError("ssh.Dial"))]
    /\ UNCHANGED <<hsCfg, hsFan, hsUrlList>>
    /\ UNCHANGED hsOthers

(***************************************************************************)
(* The fan-out of deployRavenDbInstances(parallel) and of                   *)
(* RemoveRavenDbInstances: one task per host, a WaitGroup, a buffered       *)
(* channel of errors.  With parallel = false deployAction is called inline: *)
(* the loop goes on when the task of the host has finished.                 *)
(***************************************************************************)
FanHosts == 1..hsCfg.Hosts

\* make(chan error, len(sc.Hosts))
ChannelCapacityOne(hosts) == 1

ChannelCapacity(hosts) == hosts

\* the loop over sc.Hosts has no break: it goes on whatever the hosts before
\* returned
LoopContinues(failed) == TRUE

\* the tasks of the hosts before index have finished
FinishedBefore(index) == \A h \in 1..(index - 1) : hsTask[h].pc = "finished"

\* for index, publicIp := range sc.Hosts { go deployAction / deployAction;
\* wg.Add(1); go func() { purgeRavenDbInstance } }
FanSpawn ==
    /\ ~Crashed
    /\ hsFan.pc = "loop"
    /\ hsCfg.parallel \/ FinishedBefore(hsFan.index)
    /\ IF hsFan.index <= hsCfg.Hosts
          /\ LoopContinues(\E h \in 1..(hsFan.index - 1) : hsTask[h].ret # NilError)
       THEN /\ hsTask' = [hsTask EXCEPT ![hsFan.index].calls = @ + 1,
                                        ![hsFan.index].assets = hsCfg.Assets,
                                        ![hsFan.index].pc =
                                            IF hsCfg.op = "deploy" THEN "parseKey"
                                            ELSE "purge.parseKey"]
            /\ hsFan' = [hsFan EXCEPT !.index = @ + 1,
                                      !.wg = IF hsCfg.op = "remove" THEN @ + 1 ELSE @]
       ELSE /\ hsFan' = [hsFan EXCEPT !.pc = "wait"]
            /\ UNCHANGED hsTask
    /\ UNCHANGED <<hsCfg, hsUrlList>>
    /\ UNCHANGED hsOthers

\* the end of the task of host h: if err != nil { errorsChannel <- err };
\* wg.Done().  The send blocks while the channel is full.
HostFinish(h) ==
    /\ ~Crashed
    /\ hsFan.pc # "none"
    /\ hsTask[h].pc \in {"returned", "done"}
    /\ IF hsTask[h].ret # NilError
       THEN /\ Len(hsFan.errorsChannel) < ChannelCapacity(hsCfg.Hosts)
            /\ hsFan' = [hsFan EXCEPT !.errorsChannel =
                                         Append(@, [host |-> h, err |-> hsTask[h].ret]),
                                      !.wg = @ - 1]
       ELSE hsFan' = [hsFan EXCEPT !.wg = @ - 1]
    /\ hsTask' = [hsTask EXCEPT ![h].pc = "finished"]
    /\ UNCHANGED <<hsCfg, hsUrlList>>
    /\ UNCHANGED hsOthers

\* wg.Wait(); close(errorsChannel)
FanWait ==
    /\ ~Crashed
    /\ hsFan.pc = "wait"
    /\ hsFan.wg = 0
    /\ hsFan' = [hsFan EXCEPT !.closed = TRUE, !.pc = "drain"]
    /\ UNCHANGED <<hsCfg, hsTask, hsUrlList>>
    /\ UNCHANGED hsOthers

\* for err := range errorsChannel { result = multierror.Append(result, err) }
Drain(channel) == channel

\* the loop over the closed channel, then return result (RemoveRavenDbInstances
\* wraps a non-nil result into diagnostics)
FanDrain ==
    /\ ~Crashed
    /\ hsFan.pc = "drain"
    /\ hsFan' = [hsFan EXCEPT !.result = Drain(hsFan.errorsChannel),
                              !.errorsChannel = <<>>,
                              !.pc = "returned"]
    /\ UNCHANGED <<hsCfg, hsTask, hsUrlList>>
    /\ UNCHANGED hsOthers

(***************************************************************************)
(* SpecServer: one call of deployServer, with every outcome of every step.  *)
(***************************************************************************)
\* the keys of sc.ClusterSetupZip: the store bundle and a bundle per node, or
\* the bundle of node B alone
ZipChoices(hosts) == {{"store"} \cup {NodeTag(h) : h \in 1..hosts}, {"B"}}

AssetPaths == {<<"/etc/asset1", "/etc/asset2", "/etc/asset3">>[k] : k \in 1..MaxAssets}

AssetChoices == {{}, AssetPaths}

ServerInit ==
    /\ \E unsecured \in BOOLEAN, zip \in ZipChoices(1), assets \in AssetChoices :
          /\ hsCfg = HostConfig("server", 1, FALSE, unsecured, zip, assets, "all")
          /\ hsTask = [h \in {1} |-> [NewTask EXCEPT !.pc = "parseKey", !.calls = 1,
                                                      !.assets = assets]]
    /\ hsUrlList = [h \in {1} |-> ""]
    /\ hsFan = NoFan
    /\ RdIdle
    /\ DpIdle

ServerNext ==
    \/ DsParseKey(1)
    \/ DsConnect(1)
    \/ HostExecute(1)
    \/ DsSettings(1)
    \/ DsLicense(1)
    \/ DsNodeSetup(1)
    \/ HostUpload(1)
    \/ DsPfx(1)
    \/ DsChownPfx(1)
    \/ DsAssets(1)
    \/ DsAssetUpload(1)
    \/ DsDns(1)
    \/ DsRestart(1)

SpecServer == ServerInit /\ [][ServerNext]_vars

(***************************************************************************)
(* SpecHosts: deployRavenDbInstances, parallel or not, and                  *)
(* RemoveRavenDbInstances on at most MaxFanHosts hosts, without assets.     *)
(* A step of a host succeeds or its command fails, and a call of execute is *)
(* one step.                                                                *)
(***************************************************************************)
HostsInit ==
    /\ \E hosts \in 1..MaxFanHosts :
          /\ \/ \E parallel, unsecured \in BOOLEAN :
                   hsCfg = HostConfig("deploy", hosts, parallel, unsecured,
                                      {"store"} \cup {NodeTag(h) : h \in 1..hosts},
                                      {}, "steps")
             \/ hsCfg = HostConfig("remove", hosts, TRUE, FALSE, {}, {}, "steps")
          /\ hsTask = [h \in 1..hosts |-> NewTask]
          /\ hsUrlList = [h \in 1..hosts |-> ""]
          /\ hsFan = [NoFan EXCEPT !.pc = "loop",
                                   !.wg = IF hsCfg.op = "deploy" THEN hosts ELSE 0]
    /\ RdIdle
    /\ DpIdle

HostsNext ==
    \/ FanSpawn
    \/ FanWait
    \/ FanDrain
    \/ \E h \in FanHosts :
          \/ DsParseKey(h)
          \/ DsConnect(h)
          \/ HostExecuteCall(h)
          \/ DsSettings(h)
          \/ DsLicense(h)
          \/ DsNodeSetup(h)
          \/ HostUpload(h)
          \/ DsPfx(h)
          \/ DsChownPfx(h)
          \/ DsAssets(h)
          \/ DsDns(h)
          \/ DsRestart(h)
          \/ PurgeParseKey(h)
          \/ PurgeDial(h)
          \/ HostFinish(h)

SpecHosts == HostsInit /\ [][HostsNext]_vars

(***************************************************************************)
(* Claims on the fan-out (SpecHosts).                                       *)
(***************************************************************************)
\* the hosts whose task returned an error
FailedHosts == {h \in FanHosts : hsTask[h].ret # NilError}

\* the entries of host h in a sequence of collected errors
EntriesOf(errs, h) == {i \in 1..Len(errs) : errs[i].host = h}

\* the loop over the hosts is over
LoopOver == hsFan.pc \in {"wait", "drain", "returned"}

\* C14: in deployRavenDbInstances and RemoveRavenDbInstances each host task
\* sends at most one error into a channel whose capacity is the number of
\* hosts, so a task that has an error to send finds room in the channel; the
\* channel is closed and drained only after every host task has finished; the
\* aggregate returned holds exactly one error per failed host, the error that
\* host returned, and is nil exactly when no host failed.
C14_ErrorAggregation ==
    hsCfg.op \in {"deploy", "remove"} =>
       /\ ChannelCapacity(hsCfg.Hosts) = hsCfg.Hosts
       /\ \A h \in FanHosts :
             /\ Cardinality(EntriesOf(hsFan.errorsChannel, h))
                  + Cardinality(EntriesOf(hsFan.result, h)) <= 1
             /\ (hsTask[h].pc = "returned" /\ hsTask[h].ret # NilError) =>
                   Len(hsFan.errorsChannel) < ChannelCapacity(hsCfg.Hosts)
       /\ (hsFan.closed \/ hsFan.pc \in {"drain", "returned"}) =>
             \A h \in FanHosts : hsTask[h].pc = "finished"
       /\ hsFan.pc \in {"loop", "wait"} => ~hsFan.closed /\ hsFan.result = <<>>
       /\ hsFan.pc = "returned" =>
             /\ Len(hsFan.result) = Cardinality(FailedHosts)
             /\ \A h \in FailedHosts :
                   \E i \in 1..Len(hsFan.result) :
                      hsFan.result[i] = [host |-> h, err |-> hsTask[h].ret]
             /\ \A h \in FanHosts \ FailedHosts : EntriesOf(hsFan.result, h) = {}
             /\ hsFan.result = <<>> <=> FailedHosts = {}

\* a parallel deployment of two hosts that both failed, the error of the second
\* host collected first
C14_Witness ==
    /\ hsCfg.op = "deploy"
    /\ hsCfg.parallel
    /\ hsCfg.Hosts = 2
    /\ hsFan.pc = "returned"
    /\ Len(hsFan.result) = 2
    /\ hsFan.result[1].host = 2
    /\ hsFan.result[1].err.kind = "DeployError"

\* what deployRavenDbInstances returns and leaves in sc.Url.List, from what
\* deployServer did on each host; the flag parallel does not occur in it
ErrorsOfHosts == {[host |-> h, err |-> hsTask[h].ret] : h \in FailedHosts}

UrlListOfHosts ==
    [h \in FanHosts |-> IF hsTask[h].setup \in {"ok", "badUrl"} THEN PublicUrl(h) ELSE ""]

\* the call of deployRavenDbInstances is over: it returned, or a panic ended
\* the process
FanOver == hsFan.pc = "returned" \/ Crashed

\* the task of host h is in the middle of deployServer
Running(h) == hsTask[h].pc \notin {"new", "returned", "done", "finished", "panic"}

\* C15 as stated: with parallel = true and with parallel = false
\* deployRavenDbInstances calls deployServer exactly once for each (host,
\* index) of the host list; the set of errors of the aggregate it returns and
\* the contents of sc.Url.List are determined by the outcomes of the hosts
\* alone, so they are the same in both modes for the same outcomes.
C15_ParallelSerialSame ==
    hsCfg.op = "deploy" =>
       /\ \A h \in FanHosts :
             /\ hsTask[h].calls <= 1
             /\ hsTask[h].calls = 1 <=> h < hsFan.index
             /\ hsUrlList[h] = UrlListOfHosts[h]
       /\ (LoopOver \/ FanOver) => \A h \in FanHosts : hsTask[h].calls = 1
       /\ hsFan.pc = "returned" =>
             /\ {hsFan.result[i] : i \in 1..Len(hsFan.result)} = ErrorsOfHosts
             /\ hsUrlList = UrlListOfHosts

\* C16 as stated: a failure at a step of deployServer on one host ends the
\* steps of that host only: parallel or not, deployServer is started for every
\* other host and runs to its own end there.
C16_FanOutIsolation ==
    hsCfg.op = "deploy" =>
       /\ \A h \in FailedHosts : hsTask[h].pc \in {"returned", "finished"}
       /\ LoopOver => \A h \in FanHosts : hsTask[h].calls = 1 /\ hsTask[h].pc # "new"
       /\ hsFan.pc \in {"drain", "returned"} =>
             \A h \in FanHosts :
                /\ hsTask[h].pc = "finished"
                /\ hsTask[h].ret = NilError =>
                      /\ Len(hsTask[h].ran) > 0
                      /\ hsTask[h].ran[Len(hsTask[h].ran)] =
                            Event("run", RestartCommands[Len(RestartCommands)])
       /\ \A h \in FanHosts :
             hsTask[h].pc = "panic" =>
                \A g \in FanHosts \ {h} : hsTask[g].calls = 1 /\ ~Running(g)

(***************************************************************************)
(* The control flow of Deploy (SpecDeploy).                                 *)
(***************************************************************************)
\* deployServer was called for every host of sc.Hosts and returned no error
\* on any of them
AllHostsDeployed ==
    /\ DOMAIN hsTask = 1..sc.Hosts
    /\ \A h \in DOMAIN hsTask : hsTask[h].calls = 1 /\ hsTask[h].pc = "finished"
                                  /\ hsTask[h].ret = NilError

\* C17 as stated: Deploy first runs the deployment of all hosts, and starts
\* the reconciliation of the cluster (the topology read and all that follows)
\* only after that deployment has completed without error.
C17_HostsDeployedFirst == log # <<>> => AllHostsDeployed

(***************************************************************************)
(* Claims on deployServer (SpecServer).                                     *)
(***************************************************************************)
\* the call under SpecServer
ServerTask == hsTask[1]

\* C18 as stated: once deployServer has chosen the scheme, in unsecured mode
\* the deployment goes on with scheme http and the settings hold
\* Security.UnsecuredAccessAllowed; otherwise the scheme is https and the
\* settings do not hold that key.
C18_SchemeBySecurity ==
    (hsCfg.op = "server" /\ ServerTask.scheme # "") =>
       IF hsCfg.Unsecured
       THEN /\ ServerTask.pc # "panic"
            /\ ServerTask.scheme = "http"
            /\ "Security.UnsecuredAccessAllowed" \in ServerTask.settings
       ELSE /\ ServerTask.scheme = "https"
            /\ "Security.UnsecuredAccessAllowed" \notin ServerTask.settings

\* the positions of the history of the host, those of the DNS verification,
\* those of a remote copy, those of a command of the final execute call
RanPositions == 1..Len(ServerTask.ran)

DnsPositions == {i \in RanPositions : ServerTask.ran[i].op = "dns"}

CopyPositions == {i \in RanPositions : ServerTask.ran[i].op = "scp"}

RestartPositions ==
    {i \in RanPositions :
        /\ ServerTask.ran[i].op = "run"
        /\ \E k \in 1..Len(RestartCommands) : ServerTask.ran[i].arg = RestartCommands[k]}

\* the number of uploads deployServer makes for the configuration
UploadsDue ==
    (IF "store" \in hsCfg.ClusterSetupZip THEN 1 ELSE 0)
      + (IF NodeTag(1) \in hsCfg.ClusterSetupZip
         THEN (IF hsCfg.Unsecured THEN 1 ELSE 2) ELSE 0)
      + Cardinality(hsCfg.Assets)

\* C20: deployServer verifies DNS once, after all its uploads and before the
\* final execute call (ownership of the license, service restart, liveness
\* poll); when the verification fails nothing more runs on the host, so
\* neither the restart nor the liveness poll, and deployServer returns the
\* DNS error.
C20_DnsBeforeRestart ==
    hsCfg.op = "server" =>
       /\ Cardinality(DnsPositions) <= 1
       /\ \A d \in DnsPositions :
             /\ \A i \in RanPositions : ServerTask.ran[i].op \in {"scp", "chown"} => i < d
             /\ Cardinality(CopyPositions) = UploadsDue
             /\ ServerTask.ran[d].arg # "nil" =>
                   /\ d = Len(ServerTask.ran)
                   /\ ServerTask.pc = "returned"
                   /\ ServerTask.ret = PlainError("dns")
       /\ \A i \in RestartPositions :
             \E d \in DnsPositions : d < i /\ ServerTask.ran[d].arg = "nil"
       /\ ServerTask.pc \in {"restart", "done"} =>
             \E d \in DnsPositions : ServerTask.ran[d].arg = "nil"

\* the license, the settings, the certificate and an asset were uploaded, and
\* the resolver answered without the address of the host
C20_Witness ==
    /\ hsCfg.op = "server"
    /\ hsCfg.Assets # {}
    /\ ServerTask.pc = "returned"
    /\ ServerTask.ret = PlainError("dns")
    /\ Cardinality(CopyPositions) >= 4
    /\ ServerTask.ran[Len(ServerTask.ran)] = Event("dns", "outdated")

(***************************************************************************)
(* SpecDns: one call of GetDnsLookup, on a url with or without a port, a    *)
(* configured address in canonical or other spelling, and any answer of at  *)
(* most MaxResolved addresses.                                              *)
(***************************************************************************)
DnsUrls == {"https://a.example", "https://a.example:38888"}

HostIpTexts == {"10.0.0.1", "10.0.0.3", "2001:db8::1", "2001:DB8::1"}

\* the address that a text of the configuration denotes
ParseIP(text) ==
    CASE text = "10.0.0.1"    -> "addr1"
      [] text = "10.0.0.3"    -> "addr3"
      [] text = "2001:db8::1" -> "addr6"
      [] text = "2001:DB8::1" -> "addr6"

DnsAnswers ==
    {LookupError} \cup {Resolved(ips) : ips \in UNION {[1..n -> Addresses] : n \in 0..MaxResolved}}

NoDnsResult == [kind |-> "none", message |-> <<>>]

DnsInit ==
    /\ \E httpUrl \in DnsUrls, hostIp \in HostIpTexts, answer \in DnsAnswers :
          hsCfg = [op |-> "dns", httpUrl |-> httpUrl, hostIp |-> hostIp, answer |-> answer]
    /\ hsTask = [h \in {1} |-> [pc |-> "GetDnsLookup", result |-> NoDnsResult]]
    /\ hsUrlList = <<>>
    /\ hsFan = NoFan
    /\ RdIdle
    /\ DpIdle

\* the call of GetDnsLookup and its return
DnsCall ==
    /\ hsTask[1].pc = "GetDnsLookup"
    /\ hsTask' = [hsTask EXCEPT ![1] =
                    [pc |-> "returned",
                     result |-> GetDnsLookup(hsCfg.httpUrl, hsCfg.answer, hsCfg.hostIp)]]
    /\ UNCHANGED <<hsCfg, hsFan, hsUrlList>>
    /\ UNCHANGED hsOthers

DnsNext == DnsCall

SpecDns == DnsInit /\ [][DnsNext]_vars

\* the call under SpecDns has returned
DnsReturned == hsCfg.op = "dns" /\ hsTask[1].pc = "returned"

\* the expected address is one of the addresses the name servers hold for the
\* host name of the url
ExpectedResolved ==
    /\ ~hsCfg.answer.err
    /\ \E i \in 1..Len(hsCfg.answer.ips) : hsCfg.answer.ips[i] = ParseIP(hsCfg.hostIp)

\* a text is one of the pieces of a message
InMessage(text, message) == \E i \in 1..Len(message) : message[i] = text

\* C19 as stated: GetDnsLookup succeeds if and only if the expected host IP is
\* one of the IPs resolved for the host of the public url; when it fails
\* because the IP is absent, the message holds the expected IP and every
\* resolved IP.
C19_SucceedsIffResolved ==
    DnsReturned =>
       /\ hsTask[1].result.kind = "nil" <=> ExpectedResolved
       /\ hsTask[1].result.kind = "outdated" =>
             /\ InMessage(hsCfg.hostIp, hsTask[1].result.message)
             /\ \A i \in 1..Len(hsCfg.answer.ips) :
                   InMessage(IPString(hsCfg.answer.ips[i]), hsTask[1].result.message)

(***************************************************************************)
(* OpenZipFile(sc, path) and extractFiles(file, certHolder).  The name of   *)
(* an archive file is the sequence of the pieces between its slashes, so    *)
(* strings.Split(file.Name, "/") is the name itself; a folder entry "A/"    *)
(* ends with an empty piece.  The bytes of a file are written as the        *)
(* one-element sequence of its last piece.                                  *)
(***************************************************************************)
CREDENTIALS_FOR_SECURE_STORE_FIELD_NAME == "store"

ZipNames ==
    {<<"license.json">>, <<"setup.json">>, <<"readme.txt">>,
     <<"A", "server.pfx">>, <<"A", "other.pfx">>, <<"A", "settings.json">>,
     <<"A", "license.json">>, <<"A", "cluster.crt">>, <<"B", "server.key">>,
     <<"A", "">>}

\* the contents of the archive file of that name
ZipBytes(name) == <<name[Len(name)]>>

\* filepath.Ext(file.Name), of the names of ZipNames
FileExt(name) ==
    LET base == name[Len(name)]
    IN  CASE base \in {"server.pfx", "other.pfx"} -> ".pfx"
          [] base = "cluster.crt" -> ".crt"
          [] base = "server.key" -> ".key"
          [] base \in {"license.json", "setup.json", "settings.json"} -> ".json"
          [] base = "readme.txt" -> ".txt"
          [] OTHER -> ""

\* &CertificateHolder{Pfx: make([]byte, 0), ...}
NewCertificateHolder ==
    [Pfx |-> <<>>, Cert |-> <<>>, Key |-> <<>>, SettingsJson |-> <<>>, License |-> <<>>]

\* name of the bundle of a file: "store" for a loose file, else the first piece
BundleNameAlwaysFirst(name) == name[1]

BundleName(name) ==
    IF Len(name) = 1 THEN CREDENTIALS_FOR_SECURE_STORE_FIELD_NAME ELSE name[1]

\* the switch of extractFiles: the field the bytes of the file are assigned to
ExtractFiles(name, certHolder) ==
    LET bytes == ZipBytes(name)
        ext == FileExt(name)
    IN  CASE ext = ".pfx" -> [certHolder EXCEPT !.Pfx = bytes]
          [] ext = ".crt" -> [certHolder EXCEPT !.Cert = bytes]
          [] ext = ".key" -> [certHolder EXCEPT !.Key = bytes]
          [] ext = ".json" -> IF name = <<"license.json">>
                              THEN [certHolder EXCEPT !.License = bytes]
                              ELSE [certHolder EXCEPT !.SettingsJson = bytes]
          [] OTHER -> certHolder

\* one iteration of the loop of OpenZipFile over zipReader.Reader.File
ZipStep(t, name, ok) ==
    LET key == BundleName(name)
        holders == t.clusterSetupZip
        found == [k \in DOMAIN holders \cup {key} |->
                     IF k \in DOMAIN holders THEN holders[k] ELSE NewCertificateHolder]
    IN  IF ok
        THEN [t EXCEPT !.clusterSetupZip = [found EXCEPT ![key] = ExtractFiles(name, @)],
                       !.index = @ + 1]
        ELSE [t EXCEPT !.clusterSetupZip = found, !.err = "error", !.pc = "returned"]

\* zip.OpenReader(path)
ZipOpen ==
    /\ hsCfg.op = "zip"
    /\ hsTask[1].pc = "open"
    /\ \E ok \in BOOLEAN :
          hsTask' = [hsTask EXCEPT ![1].pc = IF ok THEN "loop" ELSE "returned",
                                   ![1].err = IF ok THEN "nil" ELSE "error"]
    /\ UNCHANGED <<hsCfg, hsFan, hsUrlList>>
    /\ UNCHANGED hsOthers

\* the next file of the archive: file.Open and ioutil.ReadAll succeed or not
ZipFile ==
    /\ hsCfg.op = "zip"
    /\ hsTask[1].pc = "loop"
    /\ hsTask[1].index <= Len(hsCfg.files)
    /\ \E ok \in BOOLEAN :
          hsTask' = [hsTask EXCEPT ![1] = ZipStep(@, hsCfg.files[@.index], ok)]
    /\ UNCHANGED <<hsCfg, hsFan, hsUrlList>>
    /\ UNCHANGED hsOthers

\* return clusterSetupZip, nil
ZipReturn ==
    /\ hsCfg.op = "zip"
    /\ hsTask[1].pc = "loop"
    /\ hsTask[1].index > Len(hsCfg.files)
    /\ hsTask' = [hsTask EXCEPT ![1].pc = "returned"]
    /\ UNCHANGED <<hsCfg, hsFan, hsUrlList>>
    /\ UNCHANGED hsOthers

(***************************************************************************)
(* SpecZip: OpenZipFile on an archive of at most MaxZipFiles files.         *)
(***************************************************************************)
\* the archives: no two files of an archive have the same name
ZipArchives ==
    {files \in UNION {[1..n -> ZipNames] : n \in 0..MaxZipFiles} :
        \A i, j \in DOMAIN files : files[i] = files[j] => i = j}

ZipInit ==
    /\ \E files \in ZipArchives : hsCfg = [op |-> "zip", files |-> files]
    /\ hsTask = [h \in {1} |-> [pc |-> "open", index |-> 1, err |-> "nil",
                                 clusterSetupZip |-> [k \in {} |-> NewCertificateHolder]]]
    /\ hsUrlList = <<>>
    /\ hsFan = NoFan
    /\ RdIdle
    /\ DpIdle

ZipNext == ZipOpen \/ ZipFile \/ ZipReturn

SpecZip == ZipInit /\ [][ZipNext]_vars

\* OpenZipFile returned the map and no error
ZipReturned == hsCfg.op = "zip" /\ hsTask[1].pc = "returned" /\ hsTask[1].err = "nil"

ZipResult == hsTask[1].clusterSetupZip

Fields == {"Pfx", "Cert", "Key", "SettingsJson", "License"}

\* the positions of the archive files of bundle key that belong to a field:
\* by extension for Pfx, Cert and Key; of the .json files, the one whose name
\* in the archive is license.json belongs to License, the others to
\* SettingsJson
FilesOf(key, field) ==
    {i \in 1..Len(hsCfg.files) :
        LET name == hsCfg.files[i]
        IN  /\ key = (IF Len(name) = 1 THEN "store" ELSE name[1])
            /\ field = (CASE FileExt(name) = ".pfx" -> "Pfx"
                           [] FileExt(name) = ".crt" -> "Cert"
                           [] FileExt(name) = ".key" -> "Key"
                           [] FileExt(name) = ".json" /\ name = <<"license.json">> -> "License"
                           [] FileExt(name) = ".json" /\ name # <<"license.json">> -> "SettingsJson"
                           [] OTHER -> "")}

Max(S) == CHOOSE x \in S : \A y \in S : y <= x

RECURSIVE Concatenated(_)
Concatenated(S) ==
    IF S = {} THEN <<>>
    ELSE Concatenated(S \ {Max(S)}) \o ZipBytes(hsCfg.files[Max(S)])

\* C22 as stated: when several archive files belong to the same field of the
\* same bundle, the field holds their bytes one after the other, in the order
\* of the archive, not only the bytes of the last one.
C22_MergeConcatenates ==
    ZipReturned =>
       \A key \in DOMAIN ZipResult, field \in Fields :
          ZipResult[key][field] = Concatenated(FilesOf(key, field))

(***************************************************************************)
(* ReadServer(publicIP, index) on an open connection: the files of the two  *)
(* configuration directories become ns.Assets, then master.key,             *)
(* settings.json, license.json and server.pfx leave the map.  A file is     *)
(* [dir, name]; its contents are written as the file itself.                *)
(***************************************************************************)
ConfigDirs == <<"/etc/ravendb", "/etc/ravendb/security">>

ConfigFileNames == {"master.key", "settings.json", "license.json", "server.pfx"}

\* delete(m, key)
MapDelete(m, key) == [k \in DOMAIN m \ {key} |-> m[k]]

\* for _, file := range files { _, fileName := filepath.Split(file);
\*                              ns.Assets[fileName] = contents }
ReadInto(assets, files) ==
    [k \in DOMAIN assets \cup {f.name : f \in files} |->
        IF \E f \in files : f.name = k
        THEN CHOOSE f \in files : f.name = k
        ELSE assets[k]]

\* the loop over the files of /etc/ravendb/security and the statement after it
SecurityAssetsDeleteFirst(assets, files) ==
    ReadInto(MapDelete(assets, "master.key"), files)

SecurityAssets(assets, files) ==
    MapDelete(ReadInto(assets, files), "master.key")

\* ns as ReadServer declares it: var ns NodeState
RsZeroNodeState ==
    [Assets |-> [k \in {} |-> ""], Settings |-> "", Licence |-> "",
     ClusterSetupZip |-> "", Version |-> "", Host |-> ""]

\* listFiles(conn, dir) and the loop over its result with readFileContents;
\* when one of them fails ReadServer returns the ns built so far and the error
RsReadDir ==
    /\ hsCfg.op = "read"
    /\ hsTask[1].pc \in {"etc", "security"}
    /\ LET dir == IF hsTask[1].pc = "etc" THEN ConfigDirs[1] ELSE ConfigDirs[2]
           files == {f \in hsCfg.files : f.dir = dir}
       IN  \E ok \in BOOLEAN :
             IF ~ok
             THEN \E read \in SUBSET files :
                    /\ read # files \/ files = {}
                    /\ hsTask' = [hsTask EXCEPT
                                    ![1].ns.Assets = ReadInto(@, read),
                                    ![1].err = "error", ![1].pc = "returned"]
             ELSE IF hsTask[1].pc = "etc"
             THEN hsTask' = [hsTask EXCEPT ![1].ns.Assets = ReadInto(@, files),
                                           ![1].pc = "security"]
             ELSE hsTask' = [hsTask EXCEPT ![1].ns.Assets = SecurityAssets(@, files),
                                           ![1].pc = "settings"]
    /\ UNCHANGED <<hsCfg, hsFan, hsUrlList>>
    /\ UNCHANGED hsOthers

\* settings.json is parsed into ns.Settings, license.json becomes ns.Licence,
\* server.pfx becomes the bundle of the node; each leaves ns.Assets
RsSettings ==
    /\ hsCfg.op = "read"
    /\ hsTask[1].pc = "settings"
    /\ LET assets == hsTask[1].ns.Assets
           has(name) == name \in DOMAIN assets
       IN  \E ok \in BOOLEAN :
             IF has("settings.json") /\ ~ok
             THEN \* json.Unmarshal failed: return ns, err
                  hsTask' = [hsTask EXCEPT ![1].err = "error", ![1].pc = "returned"]
             ELSE hsTask' = [hsTask EXCEPT
                    ![1].ns = [@ EXCEPT
                       !.Settings = IF has("settings.json") THEN "parsed" ELSE "",
                       !.Licence = IF has("license.json") THEN "license" ELSE "",
                       !.ClusterSetupZip = IF has("server.pfx") THEN "pfx" ELSE "",
                       !.Assets = MapDelete(MapDelete(MapDelete(assets,
                                     "settings.json"), "license.json"), "server.pfx")],
                    ![1].pc = "store"]
    /\ UNCHANGED <<hsCfg, hsFan, hsUrlList>>
    /\ UNCHANGED hsOthers

\* getStore and OperationGetBuildNumber; then ns.Version and ns.Host are set
RsVersion ==
    /\ hsCfg.op = "read"
    /\ hsTask[1].pc = "store"
    /\ \E ok \in BOOLEAN :
          hsTask' = [hsTask EXCEPT
             ![1].ns.Version = IF ok THEN "build" ELSE @,
             ![1].ns.Host = IF ok THEN "host" ELSE @,
             ![1].err = IF ok THEN "nil" ELSE "error",
             ![1].pc = "returned"]
    /\ UNCHANGED <<hsCfg, hsFan, hsUrlList>>
    /\ UNCHANGED hsOthers

\* the files on the host: any of the names in any of the two directories,
\* and other files
ConfigFiles ==
    SUBSET ({[dir |-> ConfigDirs[d], name |-> n] : d \in 1..2, n \in ConfigFileNames}
            \cup {[dir |-> ConfigDirs[1], name |-> "notes.txt"]})

RsInit ==
    /\ \E files \in ConfigFiles : hsCfg = [op |-> "read", files |-> files]
    /\ hsTask = [h \in {1} |-> [pc |-> "etc", err |-> "nil", ns |-> RsZeroNodeState]]
    /\ hsUrlList = <<>>
    /\ hsFan = NoFan
    /\ RdIdle
    /\ DpIdle

RsNext == RsReadDir \/ RsSettings \/ RsVersion

SpecReadServer == RsInit /\ [][RsNext]_vars

\* C23: in the NodeState a successful ReadServer returns, the asset map has
\* no entry named master.key, whether the file was in /etc/ravendb, in
\* /etc/ravendb/security or in both.
C23_NoMasterKey ==
    (hsCfg.op = "read" /\ hsTask[1].pc = "returned" /\ hsTask[1].err = "nil")
       => "master.key" \notin DOMAIN hsTask[1].ns.Assets

\* ReadServer succeeded on a host with master.key in both directories and
\* another file that stays in the asset map
C23_Witness ==
    /\ hsCfg.op = "read" /\ hsTask[1].pc = "returned" /\ hsTask[1].err = "nil"
    /\ \A d \in 1..2 : [dir |-> ConfigDirs[d], name |-> "master.key"] \in hsCfg.files
    /\ DOMAIN hsTask[1].ns.Assets = {"notes.txt"}

(***************************************************************************)
(* Claims on the errors of the fleet read (SpecRead).                       *)
(***************************************************************************)
\* the hosts whose ReadServer ended with an error that is not the
\* unreachable one
RdBrokenHosts == {h \in RdHostSet : task[h].err \notin {NoErr, ErrUnreachable}}

\* C24: when readRavenDbInstances has returned and the read of at least one
\* host failed with an error other than the unreachable one, it returned no
\* node states and an aggregate error that holds the error of every host that
\* failed in that way, and of no other host.
C24_FleetReadAborts ==
    (rdPc \in {"returned", "read"} /\ RdBrokenHosts # {})
       => /\ ~rdRet.nodes
          /\ rdRet.errs = {[host |-> h, err |-> task[h].err] : h \in RdBrokenHosts}

\* the call returned with two hosts broken and a third one unreachable
C24_Witness ==
    /\ rdPc = "returned"
    /\ Cardinality(RdBrokenHosts) = 2
    /\ RdUnreachableHosts # {}
    /\ ~rdRet.nodes
    /\ Cardinality(rdRet.errs) = 2

(***************************************************************************)
(* SpecIndexes: createIndexes on at most MaxDatabases declared databases    *)
(* with at most MaxIndexes indexes each.  Index j of database k has a name, *)
(* map functions, a reduce function and a configuration of its own.         *)
(***************************************************************************)
MaxIndexes == 2

IndexNames == <<<<"ix11", "ix12", "ix13">>, <<"ix21", "ix22", "ix23">>,
                <<"ix31", "ix32", "ix33">>>>

\* the lists of map functions index j of database k may declare
IndexMaps(k, j) ==
    LET name == IndexNames[k][j]
    IN  {<<[map |-> 1, of |-> name]>>,
         <<[map |-> 1, of |-> name], [map |-> 2, of |-> name]>>}

IndexChoices(k, j) ==
    {Index(IndexNames[k][j], maps, [reduce |-> IndexNames[k][j]],
           [configuration |-> IndexNames[k][j]]) : maps \in IndexMaps(k, j)}

IndexLists(k) ==
    UNION {{ixs \in [1..n -> UNION {IndexChoices(k, j) : j \in 1..n}] :
               \A j \in 1..n : ixs[j] \in IndexChoices(k, j)} : n \in 0..MaxIndexes}

IndexedDatabases ==
    UNION {{dbs \in [1..m -> UNION {{Database(DbName(k), <<"A">>, "", ixs) :
                                        ixs \in IndexLists(k)} : k \in 1..m}] :
               \A k \in 1..m : dbs[k].Name = DbName(k)} : m \in 0..MaxDatabases}

IxInit ==
    /\ \E dbs \in IndexedDatabases : sc = Config(1, TRUE, dbs, <<>>, <<>>)
    /\ cluster = {"A", "B"}
    /\ pc = "createIxs"
    /\ loc = InitLoc(sc.Databases)
    /\ ex = NoCall
    /\ log = <<>>
    /\ ret = NoErr
    /\ RdIdle
    /\ HsIdle

IxNext == CreateIndexes \/ CreateIndexesRet \/ ExSend

SpecIndexes == IxInit /\ [][IxNext]_vars

\* the put-index requests sent to database db for the index of that name
PutsOf(db, name) ==
    {p \in 1..Len(log) : /\ log[p].op = "PutIndexes"
                         /\ log[p].db = db
                         /\ log[p].name = name}

\* C25 as stated: when createIndexes has returned without an error, for every
\* declared database and every index declared on it exactly one put-index
\* request went to that database for that index, and its definition has the
\* name, the list of map functions, the reduce function and the configuration
\* of that index and nothing of another index.
C25_IndexDefinitionsExact ==
    (pc = "returned" /\ ret = NoErr) =>
       \A k \in 1..Len(sc.Databases) :
          \A j \in 1..Len(sc.Databases[k].Indexes) :
             LET db == sc.Databases[k]
                 ix == db.Indexes[j]
             IN  /\ Cardinality(PutsOf(db.Name, ix.IndexName)) = 1
                 /\ \A p \in PutsOf(db.Name, ix.IndexName) :
                      log[p].definition =
                         IndexDefinition(ix.IndexName, ix.Maps, ix.Reduce,
                                         ix.Configuration)

(***************************************************************************)
(* Claims on the fallback from create to modify (SpecCreate).               *)
(***************************************************************************)
\* the requests that change the members of the database of that name
MemberChanges(name) ==
    {p \in 1..Len(log) : /\ log[p].db = name
                         /\ log[p].op \in {"DeleteDatabases", "AddDatabaseNode"}}

\* the topology fetch of modifyDatabase for database k gave no result
NoTopologyFor(k) == ret = ErrNoTopology /\ loc.mdDb = k

\* C26: when the creation of a database failed with "already exists" and the
\* topology fetch of modifyDatabase gave no result, createDatabases returns
\* the error of that database, and no delete-from-node and no
\* add-database-node request is issued for it.
C26_NoTopologyIsFatal ==
    \A k \in 1..Len(sc.Databases) :
       NoTopologyFor(k) =>
          /\ loc.hist[k].created = ErrAlreadyExists
          /\ pc \in {"cdbs.modifyRet", "returned"}
          /\ loc.idx = k
          /\ MemberChanges(sc.Databases[k].Name) = {}

\* createDatabases returned the error of the second database after the
\* first one had been modified with requests of its own
C26_Witness ==
    /\ pc = "returned"
    /\ Len(sc.Databases) = 2
    /\ NoTopologyFor(2)
    /\ loc.hist[1].fetched
    /\ MemberChanges(sc.Databases[1].Name) # {}
    /\ MemberChanges(sc.Databases[2].Name) = {}

(***************************************************************************)
(* Claims on the phases of Deploy (SpecDeploy).                             *)
(***************************************************************************)
\* the phase of Deploy a request belongs to: 1 the healthcheck probe and the
\* creation of the healthcheck database, 2 deleteDatabases, 3 createDatabases
\* (with modifyDatabase), 4 deleteIndexes, 5 createIndexes
PhaseOf(r) ==
    CASE r.op = "HealthCheck" -> 1
      [] r.op = "CreateDatabase" /\ r.db = sc.HealthcheckDatabase -> 1
      [] r.op = "DeleteDatabases" /\ r.nodes = <<>> -> 2
      [] r.op = "DeleteIndex" -> 4
      [] r.op = "PutIndexes" -> 5
      [] OTHER -> 3

\* the errors the code handles instead of returning them from the phase: the
\* missing healthcheck database, a declared database that already exists, and
\* the concurrency error createDatabase lets pass
Handled(r) ==
    \/ r.op = "HealthCheck" /\ IsDatabaseDoesNotExistError(r.err)
    \/ r.op = "CreateDatabase" /\ r.db # sc.HealthcheckDatabase /\ r.err = ErrAlreadyExists
    \/ r.op = "CreateDatabase" /\ r.err = ErrConcurrency

Unhandled(r) == r.err \notin {NoErr, Pending} /\ ~Handled(r)

\* C27: the requests of Deploy come phase by phase in one fixed order, a
\* request is issued only when every earlier one has been answered, and a
\* request that ended with an error the code does not handle is the last
\* request of the Deploy, whose return value is that error.
C27_SequentialFailFast ==
    /\ \A i, j \in Positions : i < j => PhaseOf(log[i]) <= PhaseOf(log[j])
    /\ \A i \in Positions : i < Len(log) => log[i].err # Pending
    /\ \A i \in Positions :
          Unhandled(log[i]) => /\ i = Len(log)
                               /\ pc # "panic"
                               /\ pc = "returned" => ret = log[i].err

\* Deploy returned the error of a delete-index request after requests of the
\* three phases before it, and put no index though one is declared
C27_Witness ==
    /\ pc = "returned"
    /\ ret = ErrOther
    /\ {PhaseOf(log[i]) : i \in Positions} = {1, 2, 3, 4}
    /\ log[Len(log)].op = "DeleteIndex"
    /\ \E k \in 1..Len(sc.Databases) : sc.Databases[k].Indexes # <<>>

\* C28 as stated: only a no-leader answer makes the reconciliation send a
\* request again: in every call, of the healthcheck probe too, each sleep and
\* each further send follows a no-leader answer, so a probe answered with
\* database-does-not-exist (or any other error) is sent once and handled
\* without a sleep.
C28_OnlyNoLeaderRetried ==
    /\ ex.sleeps <= ex.noLeader
    /\ ex.sends <= ex.noLeader + 1
    /\ (ex.done /\ ex.kind # "none" /\ ~IsNoLeaderError(ex.err)) => ex.slept = RetryDelaySeconds * ex.noLeader

\* the operations that change the cluster
MutatingOperations ==
    {"CreateDatabase", "AddDatabaseNode", "DistributeSecretKey", "DeleteDatabases",
     "DeleteIndex", "PutIndexes"}

\* C29 as stated: a request that changes the cluster and fails with no-leader
\* is sent again, up to NUMBER_OF_RETRIES sends in all: a call of such an
\* operation, delete-database, delete-index and put-index included, ends with
\* the no-leader error only after NUMBER_OF_RETRIES sends, so that one
\* no-leader answer does not make Deploy fail.
C29_MutationsTolerateNoLeader ==
    (ex.done /\ ex.op \in MutatingOperations /\ IsNoLeaderError(ex.err))
       => ex.sends = NUMBER_OF_RETRIES

\* errors.New("cannot retrieve admin certificate from zip file. ")
ErrNoAdminCertificate == "cannot retrieve admin certificate from zip file. "

\* C30 as stated: a Deploy whose bundle map has no "store" entry does not
\* crash and sends no request to the cluster, and what it returns is the
\* error of the missing admin credential.
C30_MissingStoreIsAnError ==
    ~sc.HasStore =>
       /\ pc # "panic"
       /\ log = <<>>
       /\ ex = NoCall
       /\ pc = "returned" => ret = ErrNoAdminCertificate

(***************************************************************************)
(* addNodesToCluster(store) and addNodeToCluster(store, node).  A node URL  *)
(* is the text of the URL; the live cluster is the map AllNodes from the    *)
(* cluster-assigned tag to the URL of the node.  A call of                  *)
(* executeWithRetries is taken by its result.                               *)
(***************************************************************************)
NodeUrls ==
    {"https://a.dev.io", "https://A.dev.io", "https://b.dev.io",
     "https://b1.dev.io", "https://10.0.0.1", "https://ababa.dev.io"}

\* strings.Split(parse.Host, ".")[0] of the URLs of NodeUrls
HostLabel(nodeUrl) ==
    CASE nodeUrl = "https://a.dev.io" -> "a"
      [] nodeUrl = "https://A.dev.io" -> "A"
      [] nodeUrl = "https://b.dev.io" -> "b"
      [] nodeUrl = "https://b1.dev.io" -> "b1"
      [] nodeUrl = "https://10.0.0.1" -> "10"
      [] nodeUrl = "https://ababa.dev.io" -> "ababa"

\* regexp.MatchString("[A-Za-z]{1,4}", tag): the pattern has no anchors, so
\* the label matches when some part of it does, that is when it has a letter
MatchStringWholeLabel(tag) == tag \in {"a", "A", "b"}

MatchString(tag) == tag \in {"a", "A", "b", "b1", "ababa"}

\* the tag of a request: the label in upper case when it matches, else the
\* fallback (the cluster-assigned tag on remove, "" on add)
DerivedTag(nodeUrl, fallback) ==
    IF MatchString(HostLabel(nodeUrl)) THEN ToUpper(HostLabel(nodeUrl)) ELSE fallback

\* containsValue(m, v): x == v for some value x of the map
containsValue(m, v) == \E t \in DOMAIN m : m[t] = v

ClusterRequest(op, nodeUrl, tag, e) ==
    [op |-> op, db |-> "", name |-> tag, nodes |-> <<>>, flag |-> FALSE, n |-> 0,
     err |-> e, url |-> nodeUrl]

\* what a call of executeWithRetries ends with
CallResults == {NoErr, ErrOther}

\* clusterTopology, err := sc.getClusterTopology(store): all nodes down or a
\* passive node, another error, or a formed cluster
AnFirstFetch ==
    /\ pc = "an.fetch"
    /\ \E answer \in {"passive", "error", "formed"} :
          CASE answer = "passive" ->
                  /\ pc' = "an.passive"
                  /\ loc' = [loc EXCEPT !.formed = FALSE, !.i = 2]
                  /\ UNCHANGED ret
            [] answer = "error" ->
                  /\ pc' = "returned"
                  /\ ret' = ErrOther
                  /\ UNCHANGED loc
            [] answer = "formed" ->
                  /\ pc' = "an.fetch2"
                  /\ UNCHANGED <<loc, ret>>
    /\ UNCHANGED <<sc, ex, log, cluster>>
    /\ UNCHANGED dpOthers

\* for i := 1; i < len(sc.Url.List); i++ { addNodeToCluster(sc.Url.List[i]) }
AnPassiveAdd ==
    /\ pc = "an.passive"
    /\ IF loc.i > Len(sc.Url.List)
       THEN /\ pc' = "an.fetch2"
            /\ UNCHANGED <<loc, log, ret>>
       ELSE \E r \in CallResults :
              LET node == sc.Url.List[loc.i]
              IN  /\ log' = Append(log, ClusterRequest("AddClusterNode", node,
                                                       DerivedTag(node, ""), r))
                  /\ loc' = [loc EXCEPT !.i = @ + 1]
                  /\ ret' = r
                  /\ pc' = IF r # NoErr THEN "returned" ELSE "an.passive"
    /\ UNCHANGED <<sc, ex, cluster>>
    /\ UNCHANGED dpOthers

\* clusterTopology, err = sc.getClusterTopology(store): the live map the two
\* loops work on
AnSecondFetch ==
    /\ pc = "an.fetch2"
    /\ \E ok \in BOOLEAN :
          IF ok
          THEN /\ pc' = "an.remove"
               /\ loc' = [loc EXCEPT !.live = cluster, !.todo = DOMAIN cluster,
                                     !.mark = Len(log)]
               /\ UNCHANGED ret
          ELSE /\ pc' = "returned"
               /\ ret' = ErrOther
               /\ UNCHANGED loc
    /\ UNCHANGED <<sc, ex, log, cluster>>
    /\ UNCHANGED dpOthers

\* for nodeTag, nodeUrl := range clusterTopology.Topology.AllNodes, in the
\* order the map gives: a node whose URL contains() finds in sc.Url.List is
\* skipped, any other is removed
AnRemove ==
    /\ pc = "an.remove"
    /\ IF loc.todo = {}
       THEN /\ pc' = "an.add"
            /\ loc' = [loc EXCEPT !.i = 1]
            /\ UNCHANGED <<log, ret>>
       ELSE \E nodeTag \in loc.todo :
              LET nodeUrl == loc.live[nodeTag]
              IN  IF contains(sc.Url.List, nodeUrl).found
                  THEN /\ loc' = [loc EXCEPT !.todo = @ \ {nodeTag}]
                       /\ UNCHANGED <<log, ret, pc>>
                  ELSE \E r \in CallResults :
                         /\ log' = Append(log, ClusterRequest("RemoveClusterNode",
                                             nodeUrl, DerivedTag(nodeUrl, nodeTag), r))
                         /\ loc' = [loc EXCEPT !.todo = @ \ {nodeTag}]
                         /\ ret' = r
                         /\ pc' = IF r # NoErr THEN "returned" ELSE "an.remove"
    /\ UNCHANGED <<sc, ex, cluster>>
    /\ UNCHANGED dpOthers

\* for _, node := range sc.Url.List: a node containsValue() finds in AllNodes
\* is skipped, any other is added; return nil after the last
AnAdd ==
    /\ pc = "an.add"
    /\ IF loc.i > Len(sc.Url.List)
       THEN /\ pc' = "returned"
            /\ ret' = NoErr
            /\ UNCHANGED <<loc, log>>
       ELSE LET node == sc.Url.List[loc.i]
            IN  IF containsValue(loc.live, node)
                THEN /\ loc' = [loc EXCEPT !.i = @ + 1]
                     /\ UNCHANGED <<log, ret, pc>>
                ELSE \E r \in CallResults :
                       /\ log' = Append(log, ClusterRequest("AddClusterNode", node,
                                                            DerivedTag(node, ""), r))
                       /\ loc' = [loc EXCEPT !.i = @ + 1]
                       /\ ret' = r
                       /\ pc' = IF r # NoErr THEN "returned" ELSE "an.add"
    /\ UNCHANGED <<sc, ex, cluster>>
    /\ UNCHANGED dpOthers

(***************************************************************************)
(* SpecCluster: addNodesToCluster on at most MaxClusterUrls declared URLs   *)
(* and a live cluster of at most two nodes.                                 *)
(***************************************************************************)
MaxClusterUrls == 2

\* the declared lists: no URL twice
DeclaredUrlLists ==
    {l \in UNION {[1..n -> NodeUrls] : n \in 0..MaxClusterUrls} :
        \A i, j \in DOMAIN l : l[i] = l[j] => i = j}

\* the live maps: no two nodes with the same URL
LiveMaps ==
    {m \in UNION {[tags -> NodeUrls] : tags \in SUBSET {"X", "Y"}} :
        \A s, t \in DOMAIN m : m[s] = m[t] => s = t}

AnInit ==
    /\ \E l \in DeclaredUrlLists : sc = [Url |-> [List |-> l]]
    /\ cluster \in LiveMaps
    /\ pc = "an.fetch"
    /\ loc = [formed |-> TRUE, i |-> 1, live |-> [t \in {} |-> ""], todo |-> {},
              mark |-> 0]
    /\ ex = NoCall
    /\ log = <<>>
    /\ ret = NoErr
    /\ RdIdle
    /\ HsIdle

AnNext == AnFirstFetch \/ AnPassiveAdd \/ AnSecondFetch \/ AnRemove \/ AnAdd

SpecCluster == AnInit /\ [][AnNext]_vars

(***************************************************************************)
(* Claims on addNodesToCluster (SpecCluster).                               *)
(***************************************************************************)
\* addNodesToCluster found a formed cluster and returned nil
FormedAndDone == loc.formed /\ pc = "returned" /\ ret = NoErr

ClusterRequests(op) == {p \in 1..Len(log) : log[p].op = op}

LiveUrls == {loc.live[t] : t \in DOMAIN loc.live}

DeclaredUrls == Elems(sc.Url.List)

\* two URLs are the same one, letter case counting or not
SameUrl(u, v, fold) == IF fold THEN ToUpper(u) = ToUpper(v) ELSE u = v

\* the diff of the claim under one reading of "the same URL"
DiffUnder(fold) ==
    LET stale   == {v \in LiveUrls : \A u \in DeclaredUrls : ~SameUrl(u, v, fold)}
        missing == {u \in DeclaredUrls : \A v \in LiveUrls : ~SameUrl(u, v, fold)}
    IN  /\ {log[p].url : p \in ClusterRequests("RemoveClusterNode")} = stale
        /\ {log[p].url : p \in ClusterRequests("AddClusterNode")} = missing
        /\ Cardinality(ClusterRequests("RemoveClusterNode")) = Cardinality(stale)
        /\ Cardinality(ClusterRequests("AddClusterNode")) = Cardinality(missing)
        /\ \A p \in ClusterRequests("RemoveClusterNode"),
              q \in ClusterRequests("AddClusterNode") : p < q

\* C31 as stated: on a formed cluster, when addNodesToCluster has returned
\* nil, one remove-cluster-node request was issued for exactly the live nodes
\* whose URL is not declared and one add-cluster-node request for exactly the
\* declared URLs no live node has, the removals before the additions, so that
\* no node both declared and live is removed or added again; "the same URL"
\* read with or without regard to letter case, as long as it is one reading.
C31_MembershipDiff ==
    FormedAndDone => (DiffUnder(FALSE) \/ DiffUnder(TRUE))

\* the tag the claim gives a request: the label in upper case when the whole
\* label is 1 to 4 letters, else "" on add and the cluster's tag on remove
ClaimedTag(r) ==
    IF MatchStringWholeLabel(HostLabel(r.url)) THEN ToUpper(HostLabel(r.url))
    ELSE IF r.op = "AddClusterNode" THEN ""
    ELSE CHOOSE t \in DOMAIN loc.live : loc.live[t] = r.url

\* C32 as stated: the tag of every add-cluster-node and remove-cluster-node
\* request is the first label of the host of the node URL in upper case when
\* the whole label is 1 to 4 letters; for any other label it is empty on add
\* and the cluster-assigned tag on remove.
C32_TagOnlyFromShortLabel ==
    \A p \in 1..Len(log) : log[p].name = ClaimedTag(log[p])

\* C39 as stated: the add decision and the remove decision use one equality
\* of URLs: for a declared URL u and the URL v of a live node, containsValue
\* finds u in a map holding v exactly when contains finds v in a list holding
\* u; hence after a run on a formed cluster a declared URL and a live URL
\* that differ only in letter case gave neither a removal nor an addition.
C39_OneUrlEquality ==
    FormedAndDone =>
       \A u \in DeclaredUrls, t \in DOMAIN loc.live :
          LET v == loc.live[t]
          IN  /\ containsValue([x \in {t} |-> v], u) <=> contains(<<u>>, v).found
              /\ ToUpper(u) = ToUpper(v) =>
                    /\ \A p \in ClusterRequests("RemoveClusterNode") : log[p].url # v
                    /\ \A p \in ClusterRequests("AddClusterNode") : log[p].url # u

\* C33 as stated: when readRavenDbInstances has returned the slice, every
\* host that was read has its NodeState in its slot and its goroutine has
\* ended: no goroutine writes to the slice the caller holds.
C33_StoredBeforeReturn ==
    (rdPc \in {"returned", "read"} /\ rdRet.nodes) =>
       \A h \in RdHealthyHosts :
          /\ nodeStateArray[h] = ReadNodeState(h)
          /\ task[h].pc = "finished"
          /\ ~ENABLED RdStore(h)

(***************************************************************************)
(* setupUrls(index, scheme, settings), GetUrlByIndex(index, scheme) and     *)
(* maybeAddHttpPortToHost(host) in the tasks of deployRavenDbInstances.     *)
(* sc is shared by the tasks: hsCfg.Url holds sc.Url.HttpPort and           *)
(* sc.Url.TcpPort, hsUrlList holds sc.Url.List.  Each read and each write   *)
(* of a field of sc is a step of its own.  A URL is [host, port], port -1   *)
(* when the host carries none.                                              *)
(***************************************************************************)
DEFAULT_SECURE_RAVENDB_HTTP_PORT == 443

DEFAULT_USECURED_RAVENDB_HTTP_PORT == 8080

DEFAULT_SECURE_RAVENDB_TCP_PORT == 38888

DEFAULT_UNSECURED_RAVENDB_TCP_PORT == 38881

DEFAULT_HTTP_PORT == 80

NoPort == -1

\* the assignment in the body of if sc.Url.HttpPort == 0: the field of
\* sc.Url it writes and the value
HttpDefault(unsecured) ==
    IF ~unsecured
    THEN [field |-> "HttpPort", value |-> DEFAULT_SECURE_RAVENDB_HTTP_PORT]
    ELSE [field |-> "HttpPort", value |-> DEFAULT_USECURED_RAVENDB_HTTP_PORT]

\* the assignment in the body of if sc.Url.TcpPort == 0
TcpDefault(unsecured) ==
    IF ~unsecured
    THEN [field |-> "HttpPort", value |-> DEFAULT_SECURE_RAVENDB_TCP_PORT]
    ELSE [field |-> "TcpPort", value |-> DEFAULT_UNSECURED_RAVENDB_TCP_PORT]

\* the condition of maybeAddHttpPortToHost
AddsHttpPort(unsecured, httpPort) ==
    \/ unsecured /\ httpPort # DEFAULT_HTTP_PORT
    \/ ~unsecured /\ httpPort # DEFAULT_SECURE_RAVENDB_HTTP_PORT

PortTask ==
    [pc |-> "list", zero |-> FALSE, httpUrl |-> <<>>, tcpUrl |-> <<>>, wrote |-> {}]

\* sc.Url.List[index] = val.(string)
PtList(h) ==
    /\ hsTask[h].pc = "list"
    /\ hsUrlList' = UrlListSet(hsUrlList, h, PublicUrl(h))
    /\ hsTask' = [hsTask EXCEPT ![h].pc = "httpTest",
                                ![h].wrote = @ \cup {<<"List", h>>}]
    /\ UNCHANGED <<hsCfg, hsFan>>
    /\ UNCHANGED hsOthers

\* the test sc.Url.HttpPort == 0, then the test sc.Url.TcpPort == 0
PtTest(h) ==
    /\ hsTask[h].pc \in {"httpTest", "tcpTest"}
    /\ hsTask' = [hsTask EXCEPT
          ![h].zero = IF hsTask[h].pc = "httpTest" THEN hsCfg.Url.HttpPort = 0
                      ELSE hsCfg.Url.TcpPort = 0,
          ![h].pc = IF hsTask[h].pc = "httpTest" THEN "httpSet" ELSE "tcpSet"]
    /\ UNCHANGED <<hsCfg, hsFan, hsUrlList>>
    /\ UNCHANGED hsOthers

\* the body of the if statement whose test was made
PtSet(h) ==
    /\ hsTask[h].pc \in {"httpSet", "tcpSet"}
    /\ LET set == IF hsTask[h].pc = "httpSet" THEN HttpDefault(hsCfg.Unsecured)
                  ELSE TcpDefault(hsCfg.Unsecured)
       IN  /\ hsCfg' = IF hsTask[h].zero
                       THEN [hsCfg EXCEPT !.Url[set.field] = set.value]
                       ELSE hsCfg
           /\ hsTask' = [hsTask EXCEPT
                 ![h].wrote = IF hsTask[h].zero THEN @ \cup {<<set.field, 0>>} ELSE @,
                 ![h].pc = IF hsTask[h].pc = "httpSet" THEN "tcpTest" ELSE "hostTest"]
    /\ UNCHANGED <<hsFan, hsUrlList>>
    /\ UNCHANGED hsOthers

\* maybeAddHttpPortToHost: the test reads sc.Url.HttpPort
PtHostTest(h) ==
    /\ hsTask[h].pc = "hostTest"
    /\ hsTask' = [hsTask EXCEPT
          ![h].zero = AddsHttpPort(hsCfg.Unsecured, hsCfg.Url.HttpPort),
          ![h].pc = "hostPort"]
    /\ UNCHANGED <<hsCfg, hsFan, hsUrlList>>
    /\ UNCHANGED hsOthers

\* host += ":" + strconv.Itoa(sc.Url.HttpPort), a second read of the field
PtHostPort(h) ==
    /\ hsTask[h].pc = "hostPort"
    /\ hsTask' = [hsTask EXCEPT
          ![h].httpUrl = [host |-> hsUrlList[h],
                          port |-> IF hsTask[h].zero THEN hsCfg.Url.HttpPort
                                   ELSE NoPort],
          ![h].pc = "tcpUrl"]
    /\ UNCHANGED <<hsCfg, hsFan, hsUrlList>>
    /\ UNCHANGED hsOthers

\* tcpUrl: u.Hostname() + ":" + strconv.Itoa(sc.Url.TcpPort); return
PtTcpUrl(h) ==
    /\ hsTask[h].pc = "tcpUrl"
    /\ hsTask' = [hsTask EXCEPT
          ![h].tcpUrl = [host |-> hsUrlList[h], port |-> hsCfg.Url.TcpPort],
          ![h].pc = "done"]
    /\ UNCHANGED <<hsCfg, hsFan, hsUrlList>>
    /\ UNCHANGED hsOthers

(***************************************************************************)
(* SpecPorts: the tasks of at most MaxPortTasks hosts, started together,    *)
(* on a configuration with or without an http_port and a tcp_port.          *)
(***************************************************************************)
MaxPortTasks == 2

ConfiguredHttpPorts == {0, 80, 443, 5000}

ConfiguredTcpPorts == {0, 38888, 5001}

PtInit ==
    /\ \E n \in 1..MaxPortTasks, unsecured \in BOOLEAN,
          http \in ConfiguredHttpPorts, tcp \in ConfiguredTcpPorts :
          /\ hsCfg = [op |-> "ports", Hosts |-> n, Unsecured |-> unsecured,
                      Url |-> [HttpPort |-> http, TcpPort |-> tcp],
                      configured |-> [HttpPort |-> http, TcpPort |-> tcp]]
          /\ hsTask = [h \in 1..n |-> PortTask]
          /\ hsUrlList = [h \in 1..n |-> ""]
    /\ hsFan = NoFan
    /\ RdIdle
    /\ DpIdle

PtNext ==
    \E h \in DOMAIN hsTask :
       \/ PtList(h)
       \/ PtTest(h)
       \/ PtSet(h)
       \/ PtHostTest(h)
       \/ PtHostPort(h)
       \/ PtTcpUrl(h)

SpecPorts == PtInit /\ [][PtNext]_vars

(***************************************************************************)
(* Claims on the ports (SpecPorts).                                         *)
(***************************************************************************)
AllPortTasksDone == hsCfg.op = "ports" /\ \A h \in DOMAIN hsTask : hsTask[h].pc = "done"

\* GetUrlByIndex and maybeAddHttpPortToHost run by one task with no other
\* task at work, from the ports as configured: the ports of the two URLs
AloneUrls ==
    LET set(url, a) == [url EXCEPT ![a.field] = a.value]
        u1 == IF hsCfg.configured.HttpPort = 0
              THEN set(hsCfg.configured, HttpDefault(hsCfg.Unsecured))
              ELSE hsCfg.configured
        u2 == IF u1.TcpPort = 0 THEN set(u1, TcpDefault(hsCfg.Unsecured)) ELSE u1
    IN  [http |-> IF AddsHttpPort(hsCfg.Unsecured, u2.HttpPort) THEN u2.HttpPort
                  ELSE NoPort,
         tcp |-> u2.TcpPort]

\* C34 as stated: the task of host i writes no field of the shared
\* ServerConfig but its own slot Url.List[i], and the URLs computed for a
\* host are those it gets when it runs with no other task at work, whatever
\* the interleaving.
C34_TasksShareNothing ==
    \A h \in DOMAIN hsTask :
       hsCfg.op = "ports" =>
          /\ hsTask[h].wrote \subseteq {<<"List", h>>}
          /\ hsTask[h].pc = "done" =>
                /\ hsTask[h].httpUrl = [host |-> PublicUrl(h), port |-> AloneUrls.http]
                /\ hsTask[h].tcpUrl = [host |-> PublicUrl(h), port |-> AloneUrls.tcp]

\* C36 as stated: after GetUrlByIndex an HTTP port that was not configured
\* is 443 in secured and 8080 in unsecured mode, a TCP port that was not
\* configured is 38888 in secured and 38881 in unsecured mode, and a
\* configured port has its configured value.
C36_DefaultPorts ==
    (AllPortTasksDone /\ hsCfg.Hosts = 1) =>
       /\ hsCfg.Url.HttpPort =
             (IF hsCfg.configured.HttpPort # 0 THEN hsCfg.configured.HttpPort
              ELSE IF hsCfg.Unsecured THEN 8080 ELSE 443)
       /\ hsCfg.Url.TcpPort =
             (IF hsCfg.configured.TcpPort # 0 THEN hsCfg.configured.TcpPort
              ELSE IF hsCfg.Unsecured THEN 38881 ELSE 38888)


(***************************************************************************)
(* C35: modifyDatabase does not change the desired state: when it has       *)
(* returned, Database.ReplicationNodes of the declared database (the slice  *)
(* the DatabaseRecord topology members were built from, which ReadServer    *)
(* copies into the node state) has the same elements in the same order as   *)
(* before the call.                                                         *)
(***************************************************************************)
C35_DesiredStateUnchanged ==
    pc = "returned" =>
        sc.Databases[1].ReplicationNodes = loc.hist[1].declared


(***************************************************************************)
(* ConvertPfx and extractServerKeyAndCertForStore: the server's pfx is      *)
(* converted on the first host into server.key and server.crt, the two      *)
(* files are read back over the connection, and they are removed.           *)
(***************************************************************************)
\* the commands of extractServerKeyAndCertForStore
ConvertKey == "sudo openssl pkcs12 -in server.pfx -nocerts -nodes -out server.key"

ConvertCrt == "sudo openssl pkcs12 -in server.pfx -clcerts -nokeys -out server.crt"

CatKey == "sudo cat server.key"

CatCrt == "sudo cat server.crt"

RmKey == "sudo rm server.key"

RmCrt == "sudo rm server.crt"

\* var certHolder CertificateHolder; CertificateHolder{}
EmptyCertificateHolder == [Key |-> "", Cert |-> ""]

\* what the host may hold in the two files
KeyContents == {"key1", "key2"}

CertContents == {"cert1", "cert2"}

\* the addresses sc.Hosts[0] may be
FirstHosts == {"10.0.0.1", "10.0.0.2"}

\* ConvertPfx up to the call of extractServerKeyAndCertForStore: nothing to do
\* without a setup package or in unsecured mode; ssh.ParsePrivateKey and
\* ConnectToRemoteWithRetry may fail; then the conversion commands start
XtConvertPfx ==
    /\ hsTask[1].pc = "new"
    /\ IF hsCfg.ClusterSetupZip = {} \/ hsCfg.Unsecured
       THEN hsTask' = [hsTask EXCEPT ![1].pc = "returned"]
       ELSE \E outcome \in {"noSigner", "noConnection", "connected"} :
               hsTask' = [hsTask EXCEPT ![1] =
                   CASE outcome = "noSigner" ->
                          [@ EXCEPT !.ret = PlainError("ParsePrivateKey"),
                                    !.pc = "returned"]
                     [] outcome = "noConnection" ->
                          [@ EXCEPT !.ret = PlainError("ConnectToRemoteWithRetry"),
                                    !.pc = "returned"]
                     [] outcome = "connected" ->
                          ExecuteBegin(@, hsCfg.Host, <<ConvertKey, ConvertCrt>>,
                                       "", "xt.readKey")]
    /\ UNCHANGED <<hsCfg, hsFan, hsUrlList>>
    /\ UNCHANGED hsOthers

\* readFileContents(path, stdoutBuf, conn): writes to its own copy of the
\* buffer; NewSession or the cat may fail, else the output is the content
ReadFileContents(t, cat, contents) ==
    {[out |-> "", ran |-> t.ran, err |-> PlainError("NewSession")],
     [out |-> "", ran |-> Append(t.ran, Event("run", cat)),
      err |-> DeployError(cat, t.buf \o <<Line("cmd", cat), Line("out", cat)>>)]}
    \cup {[out |-> c, ran |-> Append(t.ran, Event("run", cat)), err |-> NilError] :
             c \in contents}

\* bytes, err := readFileContents(key, stdoutBuf, conn)
\* if err != nil { return CertificateHolder{}, err }; certHolder.Key = bytes
XtReadKey ==
    /\ hsTask[1].pc = "xt.readKey"
    /\ \E r \in ReadFileContents(hsTask[1], CatKey, KeyContents) :
          hsTask' = [hsTask EXCEPT ![1] =
              IF r.err # NilError
              THEN [@ EXCEPT !.ran = r.ran, !.ret = r.err,
                             !.certHolder = EmptyCertificateHolder,
                             !.pc = "returned"]
              ELSE [@ EXCEPT !.ran = r.ran, !.certHolder.Key = r.out,
                             !.pc = "xt.readCrt"]]
    /\ UNCHANGED <<hsCfg, hsFan, hsUrlList>>
    /\ UNCHANGED hsOthers

\* bytes, err = readFileContents(crt, stdoutBuf, conn)
\* if err != nil { return CertificateHolder{}, err }; certHolder.Cert = bytes;
\* then execute of the two remove commands
XtReadCrt ==
    /\ hsTask[1].pc = "xt.readCrt"
    /\ \E r \in ReadFileContents(hsTask[1], CatCrt, CertContents) :
          hsTask' = [hsTask EXCEPT ![1] =
              IF r.err # NilError
              THEN [@ EXCEPT !.ran = r.ran, !.ret = r.err,
                             !.certHolder = EmptyCertificateHolder,
                             !.pc = "returned"]
              ELSE ExecuteBegin([@ EXCEPT !.ran = r.ran, !.certHolder.Cert = r.out],
                                hsCfg.Host, <<RmKey, RmCrt>>, "", "xt.removed")]
    /\ UNCHANGED <<hsCfg, hsFan, hsUrlList>>
    /\ UNCHANGED hsOthers

\* the remove commands succeeded: return certHolder, nil
XtReturn ==
    /\ hsTask[1].pc = "xt.removed"
    /\ hsTask' = [hsTask EXCEPT ![1].ret = NilError, ![1].pc = "returned"]
    /\ UNCHANGED <<hsCfg, hsFan, hsUrlList>>
    /\ UNCHANGED hsOthers

(***************************************************************************)
(* SpecConvert: one call of ConvertPfx, with or without a setup package, in *)
(* secured or unsecured mode, where every remote step may fail.             *)
(***************************************************************************)
XtInit ==
    /\ \E host \in FirstHosts, unsecured \in BOOLEAN, zip \in {{}, {"store"}} :
          hsCfg = [op |-> "convert", Host |-> host, Unsecured |-> unsecured,
                   ClusterSetupZip |-> zip, faults |-> "all"]
    /\ hsTask = [h \in {1} |-> NewTask @@ [certHolder |-> EmptyCertificateHolder]]
    /\ hsUrlList = <<>>
    /\ hsFan = NoFan
    /\ RdIdle
    /\ DpIdle

XtNext ==
    \/ XtConvertPfx
    \/ HostExecute(1)
    \/ XtReadKey
    \/ XtReadCrt
    \/ XtReturn

SpecConvert == XtInit /\ [][XtNext]_vars

\* the call has returned after a conversion command ran on the host
ReturnedAfterConversion ==
    /\ hsTask[1].pc = "returned"
    /\ \E k \in 1..Len(hsTask[1].ran) : hsTask[1].ran[k] = Event("run", ConvertKey)

\* the positions of the command cmd among the commands run on the host
RanAt(cmd) == {k \in 1..Len(hsTask[1].ran) : hsTask[1].ran[k] = Event("run", cmd)}

(***************************************************************************)
(* C37: extractServerKeyAndCertForStore leaves no extracted secret on the   *)
(* host: on every exit path after the conversion commands were started, the *)
(* remove commands for server.key and server.crt have run on the host       *)
(* before the function returns.                                             *)
(***************************************************************************)
C37_SecretsRemoved ==
    ReturnedAfterConversion => (RanAt(RmKey) # {} /\ RanAt(RmCrt) # {})


(***************************************************************************)
(* flattenDatabases and encryptionKeyHash: the read-back of the declared    *)
(* databases into the node output, where the encryption key is shown as     *)
(* the hex text of its Argon2id hash.                                       *)
(***************************************************************************)
\* hex.EncodeToString: two lower-case hex digits per byte
HexDigits == <<"0", "1", "2", "3", "4", "5", "6", "7",
               "8", "9", "a", "b", "c", "d", "e", "f">>

RECURSIVE EncodeToString(_)
EncodeToString(bytes) ==
    IF bytes = <<>> THEN ""
    ELSE HexDigits[(Head(bytes) \div 16) + 1] \o HexDigits[(Head(bytes) % 16) + 1]
           \o EncodeToString(Tail(bytes))

\* the salts generateRandomBytes may return (rand.Read fills the slice with
\* random bytes); the model keeps one byte of the salt
RandomBytes == {<<7>>, <<172>>}

\* argon2.IDKey(password, salt, ...): a function of the password and the salt
\* with fixed parameters; different passwords or salts give different keys
PasswordBytes(plainText) ==
    CASE plainText = ""   -> <<0>>
      [] plainText = "k1" -> <<29>>
      [] plainText = "k2" -> <<243>>

IDKey(plainText, salt) == PasswordBytes(plainText) \o salt

\* generateFromPlainText and encryptionKeyHash with the salt rand.Read gave
encryptionKeyHash(plainText, salt) == EncodeToString(IDKey(plainText, salt))

\* flattenDatabases(databases) with the salt drawn for each database
flattenDatabases(databases, salts) ==
    [k \in 1..Len(databases) |->
        [name              |-> databases[k].Name,
         replication_nodes |-> databases[k].ReplicationNodes,
         encryption_key    |-> encryptionKeyHash(databases[k].Key, salts[k])]]

\* the read-backs of one configuration
MaxReadBacks == 2

\* one read-back: every database is flattened with a fresh salt, or rand.Read
\* fails and log.Fatal ends the process
FlReadBack ==
    /\ pc = "fl.read"
    /\ Len(loc.reads) < MaxReadBacks
    /\ \/ \E salts \in [1..Len(sc.Databases) -> RandomBytes] :
            /\ loc' = [loc EXCEPT !.reads =
                          Append(@, flattenDatabases(sc.Databases, salts))]
            /\ UNCHANGED pc
       \/ /\ pc' = "fl.fatal"
          /\ UNCHANGED loc
    /\ UNCHANGED <<sc, ex, log, ret, cluster>>
    /\ UNCHANGED dpOthers

(***************************************************************************)
(* SpecFlatten: at most MaxReadBacks read-backs of a configuration of at    *)
(* most MaxDatabases databases, with or without an encryption key.          *)
(***************************************************************************)
FlattenDatabases ==
    UNION {[1..n -> {Database(name, <<"A">>, key, <<>>) :
                        name \in {"db1"}, key \in {"", "k1", "k2"}}] :
             n \in 1..MaxDatabases}

FlInit ==
    /\ \E dbs \in FlattenDatabases : sc = [Databases |-> dbs]
    /\ pc = "fl.read"
    /\ loc = [reads |-> <<>>]
    /\ ex = NoCall
    /\ log = <<>>
    /\ ret = NoErr
    /\ cluster = {}
    /\ RdIdle
    /\ HsIdle

FlNext == FlReadBack

SpecFlatten == FlInit /\ [][FlNext]_vars

(***************************************************************************)
(* C38: the displayed hash of a database encryption key is deterministic:   *)
(* two read-backs of the same declared database with the same encryption    *)
(* key produce the same encryption_key value in the flattened output.       *)
(***************************************************************************)
C38_HashDeterministic ==
    \A i, j \in 1..Len(loc.reads) :
        \A k \in 1..Len(sc.Databases) :
            loc.reads[i][k].encryption_key = loc.reads[j][k].encryption_key


(***************************************************************************)
(* C40: createDatabase ends after a bounded number of requests: it polls    *)
(* the cluster topology at most NUMBER_OF_RETRIES times, going round the    *)
(* loop (and sleeping) only while the live member count differs from the    *)
(* declared URL count; after the last poll it issues the create-database    *)
(* request even if the count never matched; when a poll fails it returns    *)
(* that error and issues no create-database request.                        *)
(***************************************************************************)
C40_BoundedPolls ==
    [][/\ pc' = "cd.pollRet" => loc'.pollI < NUMBER_OF_RETRIES
       /\ (pc = "cd.pollRet" /\ ex.done /\ ex.err = NoErr) =>
             IF ex.match
             THEN pc' = "cd.create" /\ loc'.pollI = loc.pollI
             ELSE pc' = "cd.poll" /\ loc'.pollI = loc.pollI + 1
       /\ (pc = "cd.poll" /\ loc.pollI = NUMBER_OF_RETRIES) => pc' = "cd.create"
       /\ pc = "cd.create" =>
             /\ pc' = "cd.createRet"
             /\ log' = Append(log, log'[Len(log')])
             /\ log'[Len(log')].op = "CreateDatabase"
       /\ (pc = "cd.pollRet" /\ ex.done /\ ex.err # NoErr) =>
             /\ ret' = ex.err
             /\ pc' = loc.cdRet
             /\ log' = log]_vars

\* five polls have found a member count other than the declared one, and the
\* create-database request is about to be issued
C40_Witness ==
    /\ pc = "cd.create"
    /\ loc.pollI = NUMBER_OF_RETRIES

=============================================================================
